---------------------------- MODULE Spec2Model ----------------------------
(***************************************************************************)
(* Model of the progress-event seeder of seed-sandbox-data                 *)
(* (src/seed/events.ts, seedProgressEventsForGroup) and of the date        *)
(* helper it uses (src/seed/config.ts, getTimestampDaysAgo).               *)
(*                                                                         *)
(* One run of seedProgressEventsForGroup is one behaviour.  The inputs of  *)
(* the run (enrollments, lessonsByModule, and the working days that follow *)
(* from CONFIG.DAYS_TO_SEED and the weekday of the run's current date) are *)
(* chosen in Init and never change.  One step is one iteration of a loop   *)
(* body: one lesson of the main pass, one continuation, one pending        *)
(* mastery check.  The rows an                                             *)
(* iteration writes are a sequence, so that a failing db.execute can be    *)
(* placed between any two of them (ExecuteFails).                          *)
(*                                                                         *)
(* Numbers.  The source computes three quotients in IEEE doubles:          *)
(*   Math.ceil((moduleLessonCount / totalLessons) * workingDays.length)    *)
(*   Math.ceil(moduleLessons.length * completionRate)                      *)
(*   Math.floor((i / enrollments.length) * (moduleDays.length * 0.3))      *)
(* The model computes them in exact integer arithmetic.  The two agree for *)
(* every totalLessons < 14, every enrollments.length < 11 and every        *)
(* working-day count < 50, which covers all inputs drawn below (the first  *)
(* disagreement is ceil((9/14)*42) = 28 in doubles, 27 exactly).           *)
(*                                                                         *)
(* Time.  A timestamp is the number of hours between local midnight of the *)
(* run's current date and the instant; getTimestampDaysAgo(d, h) is        *)
(* 10 + h - 24*d.  Date.setHours carries hours >= 24 into the next day,    *)
(* which the integer keeps.  toISOString prints the instant in UTC: the     *)
(* calendar date of a stamp is taken utcOffset hours earlier, utcOffset     *)
(* being the hours local time is ahead of UTC (0 unless a specification     *)
(* says otherwise).  Daylight-saving shifts are not modelled.               *)
(***************************************************************************)
EXTENDS Integers, Sequences, FiniteSets, TLC

(***************************************************************************)
(* Bounds of the input space                                               *)
(***************************************************************************)
MaxStudents == 2
MaxModules == 2
\* lessons of all modules together
MaxLessons == 2
MaxQuestions == 4
MaxDaysToSeed == 4
\* seed runs in a row on one database
MaxRuns == 2
\* largest day offset handed to a helper called on its own
MaxOffset == 5
\* largest student and lesson index handed to a helper called on its own
MaxIndex == 9
\* standalone (ramp-up) lessons of a module
MaxStandalone == 2
\* assessments of a module
MaxAssessments == 2
\* students of seedDetailedProgressForFirstLesson run on its own: one of each
\* of its seven progress types
MaxDetailStudents == 7
\* runs of one student over longer module lists
MaxAllocModules == 3
MaxAllocLessons == 2
\* one lesson long enough for its clock offsets to run past noon of the next
\* day; it is also the budget of questions of all lessons together
LongLesson == 53

(***************************************************************************)
(* Program constants                                                       *)
(***************************************************************************)
\* CONFIG.DAYS_TO_SEED
DAYS_TO_SEED == 45
\* date.setHours(10 + hoursOffset, 0, 0, 0)
BaseHour == 10
\* getTimestampDaysAgo(pending.scheduledDayOffset, 2)
PendingHoursOffset == 2

Min(a, b) == IF a <= b THEN a ELSE b
Max(a, b) == IF a >= b THEN a ELSE b
\* Math.ceil(a / b) for a >= 0, b > 0
CeilDiv(a, b) == (a + b - 1) \div b

RECURSIVE SumSeq(_)
SumSeq(s) == IF s = <<>> THEN 0 ELSE Head(s) + SumSeq(Tail(s))

(***************************************************************************)
(* Date utilities (config.ts)                                              *)
(***************************************************************************)
\* hours since local midnight of the current date
GetTimestampDaysAgo(daysAgo, hoursOffset) == BaseHour + hoursOffset - 24 * daysAgo

\* new Date(getTimestampDaysAgo(dayOffset)).getDay(): 0 = Sunday .. 6 = Saturday
DayOfWeek(dayOffset, dow) == (dow + 7 * dayOffset - dayOffset) % 7

\* the working-day loop: dayOffset from daysToSeed down to 1, weekends dropped
WorkingDays(n, dow) ==
    SelectSeq([k \in 1..n |-> n - k + 1],
              LAMBDA d : DayOfWeek(d, dow) # 0 /\ DayOfWeek(d, dow) # 6)

(***************************************************************************)
(* Module/day window allocation                                            *)
(***************************************************************************)
\* totalLessons = lessonsByModule.reduce((sum, m) => sum + m.length, 0)
TotalLessons(counts) == SumSeq(counts)

\* Math.ceil((moduleLessonCount / totalLessons) * workingDays.length), totalLessons > 0
ModuleDayCount(cnt, total, nDays) == CeilDiv(cnt * nDays, total)

\* The allocation loop from module m (1-based) on.  nan records that dayIndex
\* is NaN: with totalLessons = 0 every quotient is 0/0 = NaN, Math.min of it is
\* NaN, slice(dayIndex, NaN) is empty and dayIndex stays NaN from then on.
RECURSIVE AllocLoop(_, _, _, _, _, _)
AllocLoop(counts, wd, m, dayIndex, nan, acc) ==
    IF m > Len(counts)
    THEN [windows |-> acc, dayIndex |-> dayIndex, nan |-> nan]
    ELSE IF nan \/ TotalLessons(counts) = 0
         THEN AllocLoop(counts, wd, m + 1, dayIndex, TRUE, Append(acc, <<>>))
         ELSE LET moduleDayCount == ModuleDayCount(counts[m], TotalLessons(counts), Len(wd))
                  endIndex == Min(dayIndex + moduleDayCount, Len(wd))
              IN AllocLoop(counts, wd, m + 1, endIndex, FALSE,
                           Append(acc, SubSeq(wd, dayIndex + 1, endIndex)))

\* "Ensure last module gets remaining days": dayIndex < workingDays.length is
\* false for NaN; with no module at all moduleWorkingDays[-1] is undefined and
\* the push throws a TypeError.
AllocThrows(counts, wd) ==
    LET r == AllocLoop(counts, wd, 1, 0, FALSE, <<>>)
    IN ~r.nan /\ r.dayIndex < Len(wd) /\ Len(counts) = 0

ModuleWorkingDays(counts, wd) ==
    LET r == AllocLoop(counts, wd, 1, 0, FALSE, <<>>)
        n == Len(r.windows)
    IN IF ~r.nan /\ r.dayIndex < Len(wd) /\ n > 0
       THEN [r.windows EXCEPT ![n] = r.windows[n] \o SubSeq(wd, r.dayIndex + 1, Len(wd))]
       ELSE r.windows

(***************************************************************************)
(* Learner profile and pacing arithmetic (main pass)                       *)
(***************************************************************************)
\* completionRate * 5 for learnerType = i % 5: 1.0, 0.8, 0.6, 0.4, 0.2
CompletionRateFifths(studentIndex) == 5 - (studentIndex % 5)

\* the lesson count of a student rounded one past the product
LessonsToCompleteRoundedPast(moduleLessonCount, studentIndex) ==
    (moduleLessonCount * CompletionRateFifths(studentIndex)) \div 5 + 1

\* Math.ceil(moduleLessons.length * completionRate)
LessonsToCompleteInModule(moduleLessonCount, studentIndex) ==
    CeilDiv(moduleLessonCount * CompletionRateFifths(studentIndex), 5)

\* Math.floor((i / enrollments.length) * (moduleDays.length * 0.3))
StartDayIndex(studentIndex, nEnrollments, nModuleDays) ==
    (3 * studentIndex * nModuleDays) \div (10 * nEnrollments)

\* moduleDays.slice(startDayIndex)
AvailableDays(moduleDays, studentIndex, nEnrollments) ==
    SubSeq(moduleDays, StartDayIndex(studentIndex, nEnrollments, Len(moduleDays)) + 1,
           Len(moduleDays))

\* Math.max(1, Math.floor(availableDays.length / lessonsToCompleteInModule))
DaysPerLesson(nAvailable, lessonsToComplete) == Max(1, nAvailable \div lessonsToComplete)

\* the split decision taken for a lesson of any length
SplitLessonAnyLength(studentIndex, lessonIndex, modIndex, nQuestions) ==
    (studentIndex + lessonIndex + modIndex) % 10 < 3 /\ nQuestions >= 1

\* (i + lessonIdx + moduleIndex) % 10 < 3 && totalQuestions >= 2
SplitLesson(studentIndex, lessonIndex, modIndex, nQuestions) ==
    (studentIndex + lessonIndex + modIndex) % 10 < 3 /\ nQuestions >= 2

\* questionsDay1 with the larger half on the first day
QuestionsDay1Ceil(split, nQuestions) == IF split THEN (nQuestions + 1) \div 2 ELSE nQuestions

\* splitLesson ? Math.floor(totalQuestions / 2) : totalQuestions
QuestionsDay1(split, nQuestions) == IF split THEN nQuestions \div 2 ELSE nQuestions

\* the delay decision at three of five instead of two of five
DelayMasteryCheckThreeOfFive(studentIndex, lessonIndex, modIndex) ==
    (studentIndex + lessonIndex + modIndex) % 5 < 3

\* main pass: (i + lessonIdx + moduleIndex) % 5 < 2
DelayMasteryCheck(studentIndex, lessonIndex, modIndex) ==
    (studentIndex + lessonIndex + modIndex) % 5 < 2

\* continuation drain: (partial.lessonIndex + moduleIndex) % 5 < 2
DelayMasteryCheckDay2(lessonIndex, modIndex) == (lessonIndex + modIndex) % 5 < 2

\* moduleDays.indexOf(currentDayOffset), 0-based, -1 when absent
IndexOf(days, d) ==
    IF \E k \in 1..Len(days) : days[k] = d
    THEN (CHOOSE k \in 1..Len(days) : days[k] = d /\ \A j \in 1..(k - 1) : days[j] # d) - 1
    ELSE 0 - 1

\* getNextWorkingDay with the fallback currentDayOffset - 1, not held at 1
GetNextWorkingDayUnclamped(currentDayOffset, moduleDays) ==
    LET currentIndex == IndexOf(moduleDays, currentDayOffset)
    IN IF currentIndex = 0 - 1 \/ currentIndex = Len(moduleDays) - 1
       THEN currentDayOffset - 1
       ELSE moduleDays[currentIndex + 2]

\* getNextWorkingDay with a fallback that starts the list over
GetNextWorkingDayWrapping(currentDayOffset, moduleDays) ==
    LET currentIndex == IndexOf(moduleDays, currentDayOffset)
    IN IF currentIndex = 0 - 1
       THEN Max(1, currentDayOffset - 1)
       ELSE IF currentIndex = Len(moduleDays) - 1
            THEN moduleDays[1]
            ELSE moduleDays[currentIndex + 2]

GetNextWorkingDay(currentDayOffset, moduleDays) ==
    LET currentIndex == IndexOf(moduleDays, currentDayOffset)
    IN IF currentIndex = 0 - 1 \/ currentIndex = Len(moduleDays) - 1
       THEN Max(1, currentDayOffset - 1)
       ELSE moduleDays[currentIndex + 2]

(***************************************************************************)
(* State                                                                   *)
(***************************************************************************)
VARIABLES
    utcOffset,              \* hours the process's local time is ahead of UTC
    daysToSeed,             \* CONFIG.DAYS_TO_SEED as seedStandaloneLessonEvents reads it
    standaloneCount,        \* standaloneLessonsByModule[m].length, the same for every module
    enrollments,            \* enrollments.length; student indices are 0..enrollments-1
    lessonsByModule,        \* lessonsByModule[m].length for each module, in order
    totalQuestions,         \* lesson.questions.length, the same for every lesson
    kcMissing,              \* TRUE: questions of odd index have no kcId
    workingDays,            \* the working-day offsets of lines 53-61
    pc,                     \* position of the run
    error,                  \* the error that left the function, if any
    moduleWorkingDays,
    i, moduleIndex, lessonIdx, dayIdxOffset,
    partialLessonProgress, pendingMasteryChecks,
    partialIdx, pendingIdx, \* positions of the two for-of drains
    dailyStats,
    events,                 \* rows of the events table, in insertion order
    responses,              \* mastery-check responses, in insertion order
    \* seedStandaloneLessonEvents, before it
    standaloneModule, standaloneLesson,   \* moduleIndex and lessonIdx of its loops
    standaloneRows,         \* the rows it wrote, in insertion order
    \* seedDetailedProgressForFirstLesson, after it
    detailI,                \* i of its student loop
    detailRows,             \* the rows it wrote, in insertion order, stamps in minutes from now
    \* the seed run around it (seedSandboxData)
    postgresUrlLocal,       \* POSTGRES_URL contains "localhost" or "127.0.0.1"
    teacherExists,          \* the SELECT of verifyTeacher finds a row
    namesStale,             \* a group_code or module name differs from the configured one
    runPc,                  \* position of seedSandboxData
    run,                    \* number of the seed run, from 1
    groupIndex,             \* position of the group loop
    eventsTable,            \* the events table as a set of [type, groupId, run]
    dbWrites,               \* INSERT, UPDATE and DELETE steps executed so far
    \* the pacing API client (pacing.ts)
    apiKey,                 \* SOLVES_COACHING_API_KEY is set
    pacingPc,               \* position of the pacing calls of seedSandboxData
    pacingGroup, pacingModule,   \* positions of the group and module loops
    requests,               \* the HTTP requests issued, in order
    deletedCount, createdCount,
    \* the database as cleanupSandboxData sees it (cleanup.ts)
    tables,                 \* the rows of each table: a record of sets, one field per table
    cleanupPc,              \* the statement cleanupSandboxData is about to execute
    cleanupGroup,           \* position of the group loop of cleanupSeedStudents
    seedEnrollments, allEnrollments,   \* the rows of its two SELECTs still to be handled
    assignmentIds, seedKCs, questions, assessmentIds,   \* the rows the other SELECTs returned
    cleanupIdx,             \* position of the loop over them, from 1
    deleteLog,              \* the tables a DELETE removed rows from, in order
    \* a helper function called on its own
    callArgs,               \* the arguments of the last call, <<>> before the first
    callResult              \* the value the last call returned

inputs == <<utcOffset, daysToSeed, standaloneCount, enrollments, lessonsByModule, totalQuestions, kcMissing, workingDays>>

\* getTimestampDaysAgo(...).split("T")[0]: the calendar date of the ISO string,
\* which is in UTC, as a day number relative to the local current date
DateStr(daysAgo, hoursOffset) ==
    (GetTimestampDaysAgo(daysAgo, hoursOffset) - utcOffset) \div 24
cursor == <<i, moduleIndex, lessonIdx, dayIdxOffset>>
queues == <<partialLessonProgress, pendingMasteryChecks>>
vars == <<utcOffset, daysToSeed, standaloneCount, enrollments, lessonsByModule, totalQuestions, kcMissing, workingDays,
          pc, error, moduleWorkingDays, i, moduleIndex, lessonIdx, dayIdxOffset,
          partialLessonProgress, pendingMasteryChecks, partialIdx, pendingIdx,
          dailyStats, events, responses,
          standaloneModule, standaloneLesson, standaloneRows, detailI, detailRows,
          postgresUrlLocal, teacherExists, namesStale, runPc, run, groupIndex,
          eventsTable, dbWrites,
          apiKey, pacingPc, pacingGroup, pacingModule, requests, deletedCount, createdCount,
          tables, cleanupPc, cleanupGroup, seedEnrollments, allEnrollments, assignmentIds,
          seedKCs, questions, assessmentIds, cleanupIdx, deleteLog,
          callArgs, callResult>>
call == <<callArgs, callResult>>
pacing == <<apiKey, pacingPc, pacingGroup, pacingModule, requests, deletedCount, createdCount>>
cleanupLoops == <<cleanupGroup, seedEnrollments, allEnrollments, assignmentIds, seedKCs, questions,
                  assessmentIds, cleanupIdx>>
cleanup == <<tables, cleanupPc, cleanupLoops, deleteLog>>
standalone == <<standaloneModule, standaloneLesson, standaloneRows>>
detailed == <<detailI, detailRows>>
seedRun == <<postgresUrlLocal, teacherExists, namesStale, runPc, run, groupIndex,
             eventsTable, dbWrites>>

NoQuestion == 0 - 1

\* sequences of per-module lesson counts
LessonCountLists ==
    {c \in UNION {[1..n -> 0..MaxLessons] : n \in 0..MaxModules} : SumSeq(c) <= MaxLessons}
QuestionCounts == (0..MaxQuestions) \cup {LongLesson}
DaysToSeedChoices == (0..MaxDaysToSeed) \cup {DAYS_TO_SEED}
\* the lists lines 53-61 can build: any configured length, any weekday of the run
WorkingDayLists == {WorkingDays(n, dow) : n \in DaysToSeedChoices, dow \in 0..6}

\* locals of the function, at the current position of the run
moduleDays == moduleWorkingDays[moduleIndex + 1]
moduleLessons == lessonsByModule[moduleIndex + 1]
lessonsToCompleteInModule == LessonsToCompleteInModule(moduleLessons, i)
availableDays == AvailableDays(moduleDays, i, enrollments)
daysPerLesson == DaysPerLesson(Len(availableDays), lessonsToCompleteInModule)
splitLesson == SplitLesson(i, lessonIdx, moduleIndex, totalQuestions)
questionsDay1 == QuestionsDay1(splitLesson, totalQuestions)
questionsDay2 == IF splitLesson THEN totalQuestions - questionsDay1 ELSE 0
day1Idx == Min(dayIdxOffset, Len(availableDays) - 1)
day1Offset == availableDays[day1Idx + 1]
partial == partialLessonProgress[partialIdx + 1]
pending == pendingMasteryChecks[pendingIdx + 1]

\* question.kcId is set
HasKc(question) == ~(kcMissing /\ question % 2 = 1)

Event(type, enr, mod, les, question, daysAgo, hoursOffset) ==
    [type |-> type, enrollment |-> enr, moduleIndex |-> mod, lessonIndex |-> les,
     question |-> question, daysAgo |-> daysAgo, hoursOffset |-> hoursOffset]

Timestamp(e) == GetTimestampDaysAgo(e.daysAgo, e.hoursOffset)

\* the rows of one question loop, questions fromQ .. toQ-1, the clock offset of
\* question q being q - firstQ: createQuestionShownEvent writes nothing when
\* kcId is unset, createQuestionAnsweredEvent always writes
\* the question loop with createQuestionShownEvent not returning early for a
\* question without kcId
QuestionRowsAlwaysShown(enr, mod, les, fromQ, toQ, daysAgo, firstQ) ==
    [q \in 1..(2 * Max(0, toQ - fromQ)) |->
        Event(IF q % 2 = 1 THEN "LESSON_QUESTION_SHOWN" ELSE "QUESTION_ANSWERED",
              enr, mod, les, fromQ + ((q - 1) \div 2), daysAgo,
              fromQ + ((q - 1) \div 2) - firstQ)]

RECURSIVE QuestionRows(_, _, _, _, _, _, _)
QuestionRows(enr, mod, les, fromQ, toQ, daysAgo, firstQ) ==
    IF fromQ >= toQ
    THEN <<>>
    ELSE (IF HasKc(fromQ)
          THEN <<Event("LESSON_QUESTION_SHOWN", enr, mod, les, fromQ, daysAgo, fromQ - firstQ)>>
          ELSE <<>>)
         \o <<Event("QUESTION_ANSWERED", enr, mod, les, fromQ, daysAgo, fromQ - firstQ)>>
         \o QuestionRows(enr, mod, les, fromQ + 1, toQ, daysAgo, firstQ)

\* createMasteryCheckResponse then createMasteryCheckCompletedEvent, same timestamp
MasteryRows(enr, mod, les, daysAgo, hoursOffset) ==
    <<Event("RESPONSE", enr, mod, les, NoQuestion, daysAgo, hoursOffset),
      Event("ASSIGNMENT_COMPLETED", enr, mod, les, NoQuestion, daysAgo, hoursOffset)>>

IsResponse(row) == row.type = "RESPONSE"
IsEvent(row) == row.type # "RESPONSE"

\* if (!dailyStats.has(dateStr)) dailyStats.set(dateStr, {0, 0, 0, moduleIndex + 1})
StatsWith(stats, dateStr, mod) ==
    IF dateStr \in DOMAIN stats
    THEN stats
    ELSE [d \in (DOMAIN stats) \cup {dateStr} |->
            IF d = dateStr
            THEN [completions |-> 0, questions |-> 0, masteryChecks |-> 0, module |-> mod + 1]
            ELSE stats[d]]

\* the counters of one iteration: questions++, completions++, masteryChecks++
Bump(stats, dateStr, nQuestions, nCompletions, nMasteryChecks) ==
    [stats EXCEPT ![dateStr] =
        [completions |-> @.completions + nCompletions,
         questions |-> @.questions + nQuestions,
         masteryChecks |-> @.masteryChecks + nMasteryChecks,
         module |-> @.module]]

\* the three `continue` guards of the module loop
SkipsModule(windows, stu, mod) ==
    \/ Len(windows[mod + 1]) = 0
    \/ LessonsToCompleteInModule(lessonsByModule[mod + 1], stu) = 0
    \/ Len(AvailableDays(windows[mod + 1], stu, enrollments)) = 0

\* the loop headers of the main pass: the first (student, module, lesson) at
\* or after (stu, mod, les) whose body runs; stu = enrollments when none does
RECURSIVE NextLesson(_, _, _, _)
NextLesson(windows, stu, mod, les) ==
    IF stu >= enrollments
    THEN [i |-> stu, moduleIndex |-> 0, lessonIdx |-> 0]
    ELSE IF mod >= Len(lessonsByModule)
         THEN NextLesson(windows, stu + 1, 0, 0)
         ELSE IF \/ SkipsModule(windows, stu, mod)
                 \/ les >= LessonsToCompleteInModule(lessonsByModule[mod + 1], stu)
              THEN NextLesson(windows, stu, mod + 1, 0)
              ELSE [i |-> stu, moduleIndex |-> mod, lessonIdx |-> les]

\* cleanupSandboxData is not under way; the database is left out
OutsideCleanup ==
    /\ tables = <<>>
    /\ cleanupPc = "idle"
    /\ cleanupGroup = 0
    /\ seedEnrollments = <<>> /\ allEnrollments = <<>>
    /\ assignmentIds = <<>> /\ seedKCs = <<>> /\ questions = <<>> /\ assessmentIds = <<>>
    /\ cleanupIdx = 0
    /\ deleteLog = <<>>

\* no pacing call is under way
OutsidePacing ==
    /\ apiKey = FALSE
    /\ pacingPc = "idle"
    /\ pacingGroup = 0 /\ pacingModule = 0
    /\ requests = <<>>
    /\ deletedCount = 0 /\ createdCount = 0

\* seedProgressEventsForGroup taken alone: the seed run around it stands still
InsideSeedRun ==
    /\ OutsidePacing
    /\ OutsideCleanup
    /\ utcOffset = 0
    /\ daysToSeed = 0
    /\ standaloneCount = 0
    /\ standaloneModule = 0 /\ standaloneLesson = 0
    /\ standaloneRows = <<>>
    /\ detailI = 0
    /\ detailRows = <<>>
    /\ postgresUrlLocal = TRUE
    /\ teacherExists = TRUE
    /\ namesStale = FALSE
    /\ runPc = "seeding"
    /\ run = 1
    /\ groupIndex = 0
    /\ eventsTable = {}
    /\ dbWrites = 0
    /\ callArgs = <<>>
    /\ callResult = 0

Init ==
    /\ enrollments \in 1..MaxStudents
    /\ lessonsByModule \in LessonCountLists
    /\ totalQuestions \in QuestionCounts
    /\ TotalLessons(lessonsByModule) * totalQuestions <= LongLesson
    /\ kcMissing \in BOOLEAN
    /\ workingDays \in WorkingDayLists
    /\ pc = "alloc"
    /\ error = "none"
    /\ moduleWorkingDays = <<>>
    /\ i = 0 /\ moduleIndex = 0 /\ lessonIdx = 0 /\ dayIdxOffset = 0
    /\ partialLessonProgress = <<>>
    /\ pendingMasteryChecks = <<>>
    /\ partialIdx = 0 /\ pendingIdx = 0
    /\ dailyStats = <<>>
    /\ events = <<>>
    /\ responses = <<>>
    /\ InsideSeedRun

(***************************************************************************)
(* Set-up: working days and module windows                                 *)
(***************************************************************************)
\* lines 47-49 and 63-78, then the loop headers up to the first lesson; with no module
\* and a working day left the push on moduleWorkingDays[-1] throws and the
\* error leaves the function
AllocateWindows ==
    /\ pc = "alloc"
    /\ IF AllocThrows(lessonsByModule, workingDays)
       THEN /\ pc' = "aborted"
            /\ error' = "TypeError"
            /\ UNCHANGED <<moduleWorkingDays, cursor>>
       ELSE LET windows == ModuleWorkingDays(lessonsByModule, workingDays)
                first == NextLesson(windows, 0, 0, 0)
            IN /\ pc' = "main"
               /\ error' = error
               /\ moduleWorkingDays' = windows
               /\ i' = first.i
               /\ moduleIndex' = first.moduleIndex
               /\ lessonIdx' = first.lessonIdx
               /\ dayIdxOffset' = 0
    /\ UNCHANGED <<call, seedRun, pacing, cleanup, standalone, detailed, inputs, queues, partialIdx, pendingIdx, dailyStats, events, responses>>

(***************************************************************************)
(* Main pass: one lesson of one student                                    *)
(***************************************************************************)
\* the rows written for the lesson on its first day
Day1QuestionRows == QuestionRows(i, moduleIndex, lessonIdx, 0, questionsDay1, day1Offset, 0)

Day1CompletedRow ==
    Event("LESSON_COMPLETED", i, moduleIndex, lessonIdx, NoQuestion, day1Offset, questionsDay1)

Day1ImmediateRows ==
    Day1QuestionRows \o <<Day1CompletedRow>>
        \o MasteryRows(i, moduleIndex, lessonIdx, day1Offset, questionsDay1)

\* splitLesson && questionsDay2 > 0
TakesSplitBranch == splitLesson /\ questionsDay2 > 0

\* delayMasteryCheck && day1Offset > 1
TakesDelayBranch == DelayMasteryCheck(i, lessonIdx, moduleIndex) /\ day1Offset > 1

\* the end of the lesson loop body and the loop headers that follow it:
\* dayIdxOffset += step, lessonIdx++, and on to the next lesson that runs
Advance(step) ==
    LET nxt == NextLesson(moduleWorkingDays, i, moduleIndex, lessonIdx + 1)
    IN /\ i' = nxt.i
       /\ moduleIndex' = nxt.moduleIndex
       /\ lessonIdx' = nxt.lessonIdx
       /\ dayIdxOffset' = IF nxt.i = i /\ nxt.moduleIndex = moduleIndex
                          THEN dayIdxOffset + step
                          ELSE 0

\* lines 151-198: the first half of a split lesson, the rest queued
SplitLessonDay1 ==
    /\ pc = "main"
    /\ i < enrollments
    /\ TakesSplitBranch
    /\ events' = events \o Day1QuestionRows
    /\ dailyStats' = Bump(StatsWith(dailyStats, DateStr(day1Offset, 0), moduleIndex),
                          DateStr(day1Offset, 0), questionsDay1, 0, 0)
    /\ partialLessonProgress' =
          Append(partialLessonProgress,
                 [enrollment |-> i, moduleIndex |-> moduleIndex, lessonIndex |-> lessonIdx,
                  questionsCompleted |-> questionsDay1,
                  scheduledDayOffset |-> GetNextWorkingDay(day1Offset, availableDays)])
    /\ Advance(2)
    /\ UNCHANGED <<call, seedRun, pacing, cleanup, standalone, detailed, inputs, pc, error, moduleWorkingDays, pendingMasteryChecks,
                   partialIdx, pendingIdx, responses>>

\* CompleteLessonDelayed with the immediate emission not in the else branch:
\* the mastery check is queued and also written on the spot
CompleteLessonDelayedAndWritten ==
    /\ pc = "main"
    /\ i < enrollments
    /\ ~TakesSplitBranch
    /\ TakesDelayBranch
    /\ events' = events \o SelectSeq(Day1ImmediateRows, IsEvent)
    /\ responses' = responses \o SelectSeq(Day1ImmediateRows, IsResponse)
    /\ dailyStats' = Bump(StatsWith(dailyStats, DateStr(day1Offset, 0), moduleIndex),
                          DateStr(day1Offset, 0), questionsDay1, 1, 1)
    /\ pendingMasteryChecks' =
          Append(pendingMasteryChecks,
                 [enrollment |-> i, moduleIndex |-> moduleIndex, lessonIndex |-> lessonIdx,
                  scheduledDayOffset |-> GetNextWorkingDay(day1Offset, moduleDays)])
    /\ Advance(daysPerLesson)
    /\ UNCHANGED <<call, seedRun, pacing, cleanup, standalone, detailed, inputs, pc, error, moduleWorkingDays, partialLessonProgress,
                   partialIdx, pendingIdx>>

\* lines 151-185 and 199-215, 222: all questions, LESSON_COMPLETED, and the
\* mastery check queued for the next working day
CompleteLessonDelayed ==
    /\ pc = "main"
    /\ i < enrollments
    /\ ~TakesSplitBranch
    /\ TakesDelayBranch
    /\ events' = events \o Day1QuestionRows \o <<Day1CompletedRow>>
    /\ dailyStats' = Bump(StatsWith(dailyStats, DateStr(day1Offset, 0), moduleIndex),
                          DateStr(day1Offset, 0), questionsDay1, 1, 0)
    /\ pendingMasteryChecks' =
          Append(pendingMasteryChecks,
                 [enrollment |-> i, moduleIndex |-> moduleIndex, lessonIndex |-> lessonIdx,
                  scheduledDayOffset |-> GetNextWorkingDay(day1Offset, moduleDays)])
    /\ Advance(daysPerLesson)
    /\ UNCHANGED <<call, seedRun, pacing, cleanup, standalone, detailed, inputs, pc, error, moduleWorkingDays, partialLessonProgress,
                   partialIdx, pendingIdx, responses>>

\* lines 151-185, 199-207 and 216-222: all questions, LESSON_COMPLETED, and
\* the mastery check at the same timestamp
CompleteLessonImmediate ==
    /\ pc = "main"
    /\ i < enrollments
    /\ ~TakesSplitBranch
    /\ ~TakesDelayBranch
    /\ events' = events \o SelectSeq(Day1ImmediateRows, IsEvent)
    /\ responses' = responses \o SelectSeq(Day1ImmediateRows, IsResponse)
    /\ dailyStats' = Bump(StatsWith(dailyStats, DateStr(day1Offset, 0), moduleIndex),
                          DateStr(day1Offset, 0), questionsDay1, 1, 1)
    /\ Advance(daysPerLesson)
    /\ UNCHANGED <<call, seedRun, pacing, cleanup, standalone, detailed, inputs, pc, error, moduleWorkingDays, queues, partialIdx, pendingIdx>>

\* the student loop is over: the continuation drain starts
EndMainPass ==
    /\ pc = "main"
    /\ i >= enrollments
    /\ pc' = "partial"
    /\ partialIdx' = 0
    /\ UNCHANGED <<call, seedRun, pacing, cleanup, standalone, detailed, inputs, error, moduleWorkingDays, cursor, queues, pendingIdx, dailyStats,
                   events, responses>>

(***************************************************************************)
(* Continuation drain: day 2 of one split lesson                           *)
(***************************************************************************)
Day2QuestionRows ==
    QuestionRows(partial.enrollment, partial.moduleIndex, partial.lessonIndex,
                 partial.questionsCompleted, totalQuestions, partial.scheduledDayOffset,
                 partial.questionsCompleted)

Day2CompletedRow ==
    Event("LESSON_COMPLETED", partial.enrollment, partial.moduleIndex, partial.lessonIndex,
          NoQuestion, partial.scheduledDayOffset, totalQuestions - partial.questionsCompleted)

\* delayMasteryCheck && scheduledDayOffset > 1
TakesDelayBranchDay2 ==
    /\ DelayMasteryCheckDay2(partial.lessonIndex, partial.moduleIndex)
    /\ partial.scheduledDayOffset > 1

\* lines 229-271: remaining questions, LESSON_COMPLETED, mastery check queued
ContinueLessonDelayed ==
    /\ pc = "partial"
    /\ partialIdx < Len(partialLessonProgress)
    /\ TakesDelayBranchDay2
    /\ events' = events \o Day2QuestionRows \o <<Day2CompletedRow>>
    /\ dailyStats' = Bump(StatsWith(dailyStats, DateStr(partial.scheduledDayOffset, 0),
                                    partial.moduleIndex),
                          DateStr(partial.scheduledDayOffset, 0),
                          totalQuestions - partial.questionsCompleted, 1, 0)
    /\ pendingMasteryChecks' =
          Append(pendingMasteryChecks,
                 [enrollment |-> partial.enrollment, moduleIndex |-> partial.moduleIndex,
                  lessonIndex |-> partial.lessonIndex,
                  scheduledDayOffset |->
                      GetNextWorkingDay(partial.scheduledDayOffset,
                                        moduleWorkingDays[partial.moduleIndex + 1])])
    /\ partialIdx' = partialIdx + 1
    /\ UNCHANGED <<call, seedRun, pacing, cleanup, standalone, detailed, inputs, pc, error, moduleWorkingDays, cursor, partialLessonProgress,
                   pendingIdx, responses>>

Day2ImmediateRows ==
    Day2QuestionRows \o <<Day2CompletedRow>>
        \o MasteryRows(partial.enrollment, partial.moduleIndex, partial.lessonIndex,
                       partial.scheduledDayOffset, totalQuestions - partial.questionsCompleted)

\* lines 229-262 and 272-277: remaining questions, LESSON_COMPLETED, mastery
\* check at the same timestamp
ContinueLessonImmediate ==
    /\ pc = "partial"
    /\ partialIdx < Len(partialLessonProgress)
    /\ ~TakesDelayBranchDay2
    /\ events' = events \o SelectSeq(Day2ImmediateRows, IsEvent)
    /\ responses' = responses \o SelectSeq(Day2ImmediateRows, IsResponse)
    /\ dailyStats' = Bump(StatsWith(dailyStats, DateStr(partial.scheduledDayOffset, 0),
                                    partial.moduleIndex),
                          DateStr(partial.scheduledDayOffset, 0),
                          totalQuestions - partial.questionsCompleted, 1, 1)
    /\ partialIdx' = partialIdx + 1
    /\ UNCHANGED <<call, seedRun, pacing, cleanup, standalone, detailed, inputs, pc, error, moduleWorkingDays, cursor, queues, pendingIdx>>

\* the continuation loop is over: the pending mastery checks are drained
EndPartials ==
    /\ pc = "partial"
    /\ partialIdx >= Len(partialLessonProgress)
    /\ pc' = "pending"
    /\ pendingIdx' = 0
    /\ UNCHANGED <<call, seedRun, pacing, cleanup, standalone, detailed, inputs, error, moduleWorkingDays, cursor, queues, partialIdx, dailyStats,
                   events, responses>>

(***************************************************************************)
(* Pending mastery checks drain                                            *)
(***************************************************************************)
PendingRows ==
    MasteryRows(pending.enrollment, pending.moduleIndex, pending.lessonIndex,
                pending.scheduledDayOffset, PendingHoursOffset)

\* lines 280-292
CompletePendingMasteryCheck ==
    /\ pc = "pending"
    /\ pendingIdx < Len(pendingMasteryChecks)
    /\ events' = events \o SelectSeq(PendingRows, IsEvent)
    /\ responses' = responses \o SelectSeq(PendingRows, IsResponse)
    /\ dailyStats' = Bump(StatsWith(dailyStats,
                                    DateStr(pending.scheduledDayOffset, PendingHoursOffset),
                                    pending.moduleIndex),
                          DateStr(pending.scheduledDayOffset, PendingHoursOffset), 0, 0, 1)
    /\ pendingIdx' = pendingIdx + 1
    /\ UNCHANGED <<call, seedRun, pacing, cleanup, standalone, detailed, inputs, pc, error, moduleWorkingDays, cursor, queues, partialIdx>>

\* lines 294-306: the statistics are logged and the function returns
Finish ==
    /\ pc = "pending"
    /\ pendingIdx >= Len(pendingMasteryChecks)
    /\ pc' = "done"
    /\ UNCHANGED <<call, seedRun, pacing, cleanup, standalone, detailed, inputs, error, moduleWorkingDays, cursor, queues, partialIdx, pendingIdx,
                   dailyStats, events, responses>>

Next ==
    \/ AllocateWindows
    \/ SplitLessonDay1
    \/ CompleteLessonDelayed
    \/ CompleteLessonImmediate
    \/ EndMainPass
    \/ ContinueLessonDelayed
    \/ ContinueLessonImmediate
    \/ EndPartials
    \/ CompletePendingMasteryCheck
    \/ Finish

\* runs in which every db.execute succeeds
Spec == Init /\ [][Next]_vars

(***************************************************************************)
(* Failure of the sink                                                     *)
(***************************************************************************)
\* the rows the iteration at the current position is about to write, in order
IterationRows ==
    IF pc = "main" /\ i < enrollments
    THEN IF TakesSplitBranch THEN Day1QuestionRows
         ELSE IF TakesDelayBranch THEN Day1QuestionRows \o <<Day1CompletedRow>>
         ELSE Day1ImmediateRows
    ELSE IF pc = "partial" /\ partialIdx < Len(partialLessonProgress)
    THEN IF TakesDelayBranchDay2 THEN Day2QuestionRows \o <<Day2CompletedRow>>
         ELSE Day2ImmediateRows
    ELSE IF pc = "pending" /\ pendingIdx < Len(pendingMasteryChecks)
    THEN PendingRows
    ELSE <<>>

\* ExecuteFails with a try/catch around the loop body that logs the error and
\* lets the loops go on
ExecuteFailsCaught ==
    /\ pc \in {"main", "partial", "pending"}
    /\ \E written \in 0..(Len(IterationRows) - 1) :
          /\ events' = events \o SelectSeq(SubSeq(IterationRows, 1, written), IsEvent)
          /\ responses' = responses \o SelectSeq(SubSeq(IterationRows, 1, written), IsResponse)
    /\ error' = "WriteError"
    /\ UNCHANGED <<call, seedRun, pacing, cleanup, standalone, detailed, inputs, pc, moduleWorkingDays, cursor, queues, partialIdx, pendingIdx,
                   dailyStats>>

\* One db.execute of the iteration rejects after `written` rows went in.
\* Nothing in seedProgressEventsForGroup catches: the error leaves the
\* function with every loop abandoned where it stands, and
\* seedSandboxData().catch logs it and exits the process with code 1.
ExecuteFails ==
    /\ pc \in {"main", "partial", "pending"}
    /\ \E written \in 0..(Len(IterationRows) - 1) :
          /\ events' = events \o SelectSeq(SubSeq(IterationRows, 1, written), IsEvent)
          /\ responses' = responses \o SelectSeq(SubSeq(IterationRows, 1, written), IsResponse)
    /\ pc' = "aborted"
    /\ error' = "WriteError"
    /\ UNCHANGED <<call, seedRun, pacing, cleanup, standalone, detailed, inputs, moduleWorkingDays, cursor, queues, partialIdx, pendingIdx, dailyStats>>

NextFail == Next \/ ExecuteFails

\* the runs whose lessons have at most MaxQuestions questions
InitShort == Init /\ totalQuestions <= MaxQuestions

\* runs over short lessons in which every db.execute succeeds
SpecShort == InitShort /\ [][Next]_vars

\* runs over short lessons in which any db.execute may reject: a failing append
\* is placed at every row of every iteration
SpecFail == InitShort /\ [][NextFail]_vars

\* runs of one student over module lists of up to MaxAllocModules modules,
\* the lessons having no question or two
AllocCountLists == UNION {[1..n -> 0..MaxAllocLessons] : n \in 0..MaxAllocModules}

AllocQuestionCounts == {0, 2}

InitModules ==
    /\ enrollments = 1
    /\ lessonsByModule \in AllocCountLists
    /\ totalQuestions \in AllocQuestionCounts
    /\ kcMissing = FALSE
    /\ workingDays \in WorkingDayLists
    /\ pc = "alloc"
    /\ error = "none"
    /\ moduleWorkingDays = <<>>
    /\ i = 0 /\ moduleIndex = 0 /\ lessonIdx = 0 /\ dayIdxOffset = 0
    /\ partialLessonProgress = <<>>
    /\ pendingMasteryChecks = <<>>
    /\ partialIdx = 0 /\ pendingIdx = 0
    /\ dailyStats = <<>>
    /\ events = <<>>
    /\ responses = <<>>
    /\ InsideSeedRun

SpecModules == InitModules /\ [][Next]_vars


(***************************************************************************)
(* Queries over the written events                                         *)
(***************************************************************************)
Students == 0..(enrollments - 1)
Modules == 0..(Len(lessonsByModule) - 1)
LessonsOf(mod) == 0..(lessonsByModule[mod + 1] - 1)
Range(seq) == {seq[k] : k \in DOMAIN seq}

RECURSIVE Flatten(_)
Flatten(seqs) == IF seqs = <<>> THEN <<>> ELSE Head(seqs) \o Flatten(Tail(seqs))

SameLesson(a, b) ==
    /\ a.enrollment = b.enrollment
    /\ a.moduleIndex = b.moduleIndex
    /\ a.lessonIndex = b.lessonIndex

\* the positions in the event log of the events of one type for one lesson
EventsFor(type, enr, mod, les) ==
    {k \in DOMAIN events :
        /\ events[k].type = type
        /\ events[k].enrollment = enr
        /\ events[k].moduleIndex = mod
        /\ events[k].lessonIndex = les}

Count(type, enr, mod, les) == Cardinality(EventsFor(type, enr, mod, les))

\* the place of an event in the chain shown(0), answered(0), shown(1), ...,
\* answered(n-1), LESSON_COMPLETED, ASSIGNMENT_COMPLETED of its lesson
Rank(e) ==
    CASE e.type = "LESSON_QUESTION_SHOWN" -> 2 * e.question
      [] e.type = "QUESTION_ANSWERED" -> 2 * e.question + 1
      [] e.type = "LESSON_COMPLETED" -> 2 * totalQuestions
      [] e.type = "ASSIGNMENT_COMPLETED" -> 2 * totalQuestions + 1

\* the lessons the main pass schedules for a student, read off the inputs and
\* the windows and not off the log
Scheduled(enr, mod, les) ==
    /\ ~SkipsModule(moduleWorkingDays, enr, mod)
    /\ les < LessonsToCompleteInModule(lessonsByModule[mod + 1], enr)

(***************************************************************************)
(* C1                                                                      *)
(***************************************************************************)
\* C1: within one (student, lesson) the timestamps follow the full chain
\* shown(q) <= answered(q) <= shown(q+1) <= ... <= LESSON_COMPLETED <=
\* ASSIGNMENT_COMPLETED, for every question count, split and deferred lessons
\* included: of two events of a lesson the one earlier in the chain is never
\* stamped later.
FullChainOrdered ==
    \A a \in DOMAIN events : \A b \in DOMAIN events :
        (SameLesson(events[a], events[b]) /\ Rank(events[a]) < Rank(events[b]))
            => Timestamp(events[a]) <= Timestamp(events[b])

(***************************************************************************)
(* C2                                                                      *)
(***************************************************************************)
\* C2: for every lesson with a LESSON_COMPLETED event, each question's shown
\* timestamp is at most its answered timestamp, the latest answered timestamp
\* is at most the LESSON_COMPLETED timestamp, and that is at most the
\* timestamp of the mastery-check completion.
CompletedLessonOrdered ==
    \A c \in DOMAIN events :
        events[c].type = "LESSON_COMPLETED" =>
            \A a \in DOMAIN events :
                SameLesson(events[a], events[c]) =>
                    /\ events[a].type = "QUESTION_ANSWERED" =>
                          /\ Timestamp(events[a]) <= Timestamp(events[c])
                          /\ \A s \in DOMAIN events :
                                (/\ SameLesson(events[s], events[a])
                                 /\ events[s].type = "LESSON_QUESTION_SHOWN"
                                 /\ events[s].question = events[a].question)
                                    => Timestamp(events[s]) <= Timestamp(events[a])
                    /\ events[a].type = "ASSIGNMENT_COMPLETED" =>
                          Timestamp(events[c]) <= Timestamp(events[a])

(***************************************************************************)
(* C3                                                                      *)
(***************************************************************************)
\* C3: once the allocator has run, the module windows are consecutive
\* disjoint slices of the working-day list that together cover it: laid end
\* to end in module order they are the working-day list.
WindowsPartitionWorkingDays ==
    pc \notin {"alloc", "aborted"} => Flatten(moduleWorkingDays) = workingDays

(***************************************************************************)
(* C4                                                                      *)
(***************************************************************************)
\* C4: every module's window holds at least as many working days as the
\* module has lessons (stated where the working days are at least as many as
\* the lessons, since no allocation can hand out more days than there are).
EveryModuleHasDayPerLesson ==
    (pc \notin {"alloc", "aborted"} /\ Len(workingDays) >= TotalLessons(lessonsByModule)) =>
        \A m \in DOMAIN lessonsByModule :
            Len(moduleWorkingDays[m]) >= lessonsByModule[m]

(***************************************************************************)
(* C5                                                                      *)
(***************************************************************************)
\* C5: every event of module m is dated on a day of module m's own window.
EventsInsideOwnWindow ==
    \A k \in DOMAIN events :
        events[k].daysAgo \in Range(moduleWorkingDays[events[k].moduleIndex + 1])

(***************************************************************************)
(* C6                                                                      *)
(***************************************************************************)
\* C6: when the run is over, every student has, in every module,
\* LESSON_COMPLETED events for exactly ceil(moduleLessonCount * rate) lessons:
\* all of them at rate 1.0, one of five at rate 0.2 (stated where there are at
\* least as many working days as lessons).
LessonsCompletedMatchRate ==
    (pc = "done" /\ Len(workingDays) >= TotalLessons(lessonsByModule)) =>
        \A enr \in Students : \A mod \in Modules :
            Cardinality({les \in LessonsOf(mod) : Count("LESSON_COMPLETED", enr, mod, les) >= 1})
                = LessonsToCompleteInModule(lessonsByModule[mod + 1], enr)
(***************************************************************************)
(* C7                                                                      *)
(***************************************************************************)
\* C7: no lesson ever has two LESSON_COMPLETED events or two mastery-check
\* completions, and when the function finishes both deferred queues have been
\* walked to their end and every scheduled (enrollment, lesson) has exactly
\* one LESSON_COMPLETED and exactly one ASSIGNMENT_COMPLETED event, every
\* other lesson none.
DeferredItemsConsumedOnce ==
    /\ LET completions ==
              {k \in DOMAIN events :
                  events[k].type \in {"LESSON_COMPLETED", "ASSIGNMENT_COMPLETED"}}
       IN \A k \in completions : \A j \in completions :
             (events[j].type = events[k].type /\ SameLesson(events[j], events[k])) => j = k
    /\ pc = "done" =>
          /\ partialIdx = Len(partialLessonProgress)
          /\ pendingIdx = Len(pendingMasteryChecks)
          /\ \A enr \in Students : \A mod \in Modules : \A les \in LessonsOf(mod) :
                LET expected == IF Scheduled(enr, mod, les) THEN 1 ELSE 0
                IN /\ Count("LESSON_COMPLETED", enr, mod, les) = expected
                   /\ Count("ASSIGNMENT_COMPLETED", enr, mod, les) = expected

\* a finished run in which a lesson was split and the drain of its
\* continuation queued its mastery check, so that the lesson went through both
\* queues
DrainedBothQueues ==
    /\ pc = "done"
    /\ \E k \in DOMAIN pendingMasteryChecks : \E j \in DOMAIN partialLessonProgress :
          /\ SameLesson(pendingMasteryChecks[k], partialLessonProgress[j])
          /\ Count("LESSON_COMPLETED", pendingMasteryChecks[k].enrollment,
                   pendingMasteryChecks[k].moduleIndex, pendingMasteryChecks[k].lessonIndex) = 1

(***************************************************************************)
(* C8                                                                      *)
(***************************************************************************)
\* C8: when some module has no lessons, or there are no lessons or no modules
\* at all, the function raises no error and no event is written for a module
\* without lessons.
EmptyModulesRaiseNothing ==
    (TotalLessons(lessonsByModule) = 0 \/ \E m \in DOMAIN lessonsByModule : lessonsByModule[m] = 0)
        => /\ error = "none"
           /\ \A k \in DOMAIN events : lessonsByModule[events[k].moduleIndex + 1] > 0

(***************************************************************************)
(* C10                                                                     *)
(***************************************************************************)
IsPrefix(s, t) == Len(s) <= Len(t) /\ SubSeq(t, 1, Len(s)) = s

\* C10: a failed append leaves the function at once (the error is set only
\* together with the abort), after it no row is written and no queue position
\* moves, and no step ever removes or rewrites a row already written.
FailedAppendAborts ==
    /\ [](error # "none" => pc = "aborted")
    /\ [][/\ IsPrefix(events, events')
          /\ IsPrefix(responses, responses')
          /\ error # "none" =>
                /\ events' = events
                /\ responses' = responses
                /\ partialIdx' = partialIdx
                /\ pendingIdx' = pendingIdx
                /\ error' = error]_vars

\* an append failed after some rows were written and with deferred items of
\* both kinds still waiting
AbortedWithItemsWaiting ==
    /\ error = "WriteError"
    /\ pc = "aborted"
    /\ Len(events) > 0
    /\ partialIdx < Len(partialLessonProgress)
    /\ pendingIdx < Len(pendingMasteryChecks)
(***************************************************************************)
(* The seed run: seedSandboxData                                           *)
(***************************************************************************)
\* CONFIG.GROUP_IDS
GROUP_IDS == <<1, 3>>
\* POINTS_UPDATED rows carry no groupId in their data
NoGroup == 0
\* a group of the database that the seed does not touch
OtherGroup == 2

\* the types the group functions of events.ts insert with data.groupId set
ProgressTypes ==
    {"LESSON_QUESTION_SHOWN", "QUESTION_ANSWERED", "LESSON_COMPLETED", "ASSIGNMENT_COMPLETED"}

\* the type list of the DELETE of cleanupEvents
CleanupTypes ==
    {"LESSON_QUESTION_SHOWN", "QUESTION_ANSWERED", "LESSON_COMPLETED", "ASSIGNMENT_COMPLETED"}

Row(type, groupId, r) == [type |-> type, groupId |-> groupId, run |-> r]

\* rows that are in the table before the first run; run 0 marks them
ForeignRows ==
    {Row("LESSON_COMPLETED", OtherGroup, 0), Row("POINTS_UPDATED", NoGroup, 0),
     Row("LESSON_COMPLETED", GROUP_IDS[1], 0)}

\* seedStandaloneLessonEvents, seedProgressEventsForGroup and
\* seedDetailedProgressForFirstLesson: rows of the four progress types
ProgressRows(groupId, nStudents, r) ==
    IF nStudents = 0 THEN {} ELSE {Row(t, groupId, r) : t \in ProgressTypes}

\* seedPointsEvents: at least three transactions for every student
PointsRows(nStudents, r) ==
    IF nStudents = 0 THEN {} ELSE {Row("POINTS_UPDATED", NoGroup, r)}

\* seedAttendanceEvents: every student but each fourth
AttendanceRows(groupId, nStudents, r) ==
    IF \E s \in 0..(nStudents - 1) : s % 4 # 3
    THEN {Row("STUDENT_MARKED_PRESENT", groupId, r)}
    ELSE {}

\* cleanupEvents: DELETE FROM events WHERE type IN (...) AND data->>'groupId' = groupId,
\* for every group of groupIds
AfterCleanupEvents(table, groupIds) ==
    {row \in table : ~(row.type \in CleanupTypes /\ row.groupId \in Range(groupIds))}

InitRun ==
    /\ OutsidePacing
    /\ OutsideCleanup
    /\ utcOffset = 0
    /\ daysToSeed = 0
    /\ standaloneCount = 0
    /\ standaloneModule = 0 /\ standaloneLesson = 0
    /\ standaloneRows = <<>>
    /\ detailI = 0
    /\ detailRows = <<>>
    /\ enrollments \in 0..MaxStudents
    /\ lessonsByModule = <<>>
    /\ totalQuestions = 0
    /\ kcMissing = FALSE
    /\ workingDays = <<>>
    /\ pc = "alloc"
    /\ error = "none"
    /\ moduleWorkingDays = <<>>
    /\ i = 0 /\ moduleIndex = 0 /\ lessonIdx = 0 /\ dayIdxOffset = 0
    /\ partialLessonProgress = <<>>
    /\ pendingMasteryChecks = <<>>
    /\ partialIdx = 0 /\ pendingIdx = 0
    /\ dailyStats = <<>>
    /\ events = <<>>
    /\ responses = <<>>
    /\ postgresUrlLocal \in BOOLEAN
    /\ teacherExists \in BOOLEAN
    /\ namesStale \in BOOLEAN
    /\ runPc = "start"
    /\ run = 1
    /\ groupIndex = 0
    /\ eventsTable \in SUBSET ForeignRows
    /\ dbWrites = 0
    /\ callArgs = <<>>
    /\ callResult = 0

groupFunction == <<pc, error, moduleWorkingDays, cursor, queues, partialIdx, pendingIdx,
                   dailyStats, events, responses, standalone, detailed>>

\* steps 1 and 2: verifyTeacher exits when the teacher is missing; verifyGroups
\* and verifyOrCreateModules UPDATE a stale group_code or module name.  The
\* database URL is not looked at.
VerifyTeacherGroupsModules ==
    /\ runPc = "start"
    /\ IF teacherExists
       THEN /\ runPc' = "verified"
            /\ dbWrites' = IF namesStale THEN dbWrites + 1 ELSE dbWrites
            /\ namesStale' = FALSE
       ELSE /\ runPc' = "exited"
            /\ UNCHANGED <<dbWrites, namesStale>>
    /\ UNCHANGED <<call, pacing, cleanup, inputs, groupFunction, postgresUrlLocal, teacherExists, run,
                   groupIndex, eventsTable>>

\* step 3: cleanupSandboxData(CONFIG.GROUP_IDS, moduleIds[0])
CleanupSandboxData ==
    /\ runPc = "verified"
    /\ eventsTable' = AfterCleanupEvents(eventsTable, GROUP_IDS)
    /\ dbWrites' = dbWrites + 1
    /\ runPc' = "seeding"
    /\ groupIndex' = 0
    /\ UNCHANGED <<call, pacing, cleanup, inputs, groupFunction, postgresUrlLocal, teacherExists, namesStale, run>>

\* step 4, one group: students, lessons, progress, points and attendance
SeedGroup ==
    /\ runPc = "seeding"
    /\ groupIndex < Len(GROUP_IDS)
    /\ eventsTable' = eventsTable
                        \cup ProgressRows(GROUP_IDS[groupIndex + 1], enrollments, run)
                        \cup PointsRows(enrollments, run)
                        \cup AttendanceRows(GROUP_IDS[groupIndex + 1], enrollments, run)
    /\ dbWrites' = dbWrites + 1
    /\ groupIndex' = groupIndex + 1
    /\ UNCHANGED <<call, pacing, cleanup, inputs, groupFunction, postgresUrlLocal, teacherExists, namesStale, run, runPc>>

\* step 4 with a rejected db.execute in the progress seeding of the group: the
\* rows written so far stay, seedSandboxData().catch exits with code 1
SeedGroupFails ==
    /\ runPc = "seeding"
    /\ groupIndex < Len(GROUP_IDS)
    /\ eventsTable' = eventsTable \cup ProgressRows(GROUP_IDS[groupIndex + 1], enrollments, run)
    /\ dbWrites' = dbWrites + 1
    /\ runPc' = "failed"
    /\ UNCHANGED <<call, pacing, cleanup, inputs, groupFunction, postgresUrlLocal, teacherExists, namesStale, run,
                   groupIndex>>

\* steps 5 to 10 write no row of the events table; process.exit(0)
FinishSeed ==
    /\ runPc = "seeding"
    /\ groupIndex = Len(GROUP_IDS)
    /\ runPc' = "seeded"
    /\ UNCHANGED <<call, pacing, cleanup, inputs, groupFunction, postgresUrlLocal, teacherExists, namesStale, run,
                   groupIndex, eventsTable, dbWrites>>

\* run.sh is started again on the same database
StartNextRun ==
    /\ runPc \in {"seeded", "failed"}
    /\ run < MaxRuns
    /\ run' = run + 1
    /\ runPc' = "start"
    /\ groupIndex' = 0
    /\ UNCHANGED <<call, pacing, cleanup, inputs, groupFunction, postgresUrlLocal, teacherExists, namesStale,
                   eventsTable, dbWrites>>

NextRun ==
    \/ VerifyTeacherGroupsModules
    \/ CleanupSandboxData
    \/ SeedGroup
    \/ SeedGroupFails
    \/ FinishSeed
    \/ StartNextRun

SpecRun == InitRun /\ [][NextRun]_vars
(***************************************************************************)
(* C11                                                                     *)
(***************************************************************************)
\* C11: a seed run writes to the database only when the configured database
\* URL points at a local database: as long as the URL is not local, no
\* INSERT, UPDATE or DELETE has been executed.
WritesOnlyToLocalDatabase == dbWrites > 0 => postgresUrlLocal

(***************************************************************************)
(* C14                                                                     *)
(***************************************************************************)
\* C14: once the cleanup that follows a seed run has been executed, no event
\* row created by an earlier seed run is left in the events table, whatever
\* its type.
CleanupRemovesSeededEvents ==
    (runPc = "seeding" /\ groupIndex = 0) =>
        \A row \in eventsTable : ~(row.run \in 1..(run - 1))
(***************************************************************************)
(* C12                                                                     *)
(***************************************************************************)
\* C12: the working-day list is strictly descending, it holds exactly the
\* offsets of DAYS_TO_SEED..1 that are not a Saturday or a Sunday (for the
\* weekday of the run's date), and every event is dated on an offset of the
\* list.
EventsOnWorkingDays ==
    /\ \A k \in 1..(Len(workingDays) - 1) : workingDays[k] > workingDays[k + 1]
    /\ \E n \in DaysToSeedChoices : \E dow \in 0..6 :
          Range(workingDays) = {d \in 1..n : DayOfWeek(d, dow) \notin {0, 6}}
    /\ \A k \in DOMAIN events : events[k].daysAgo \in Range(workingDays)
(***************************************************************************)
(* C13                                                                     *)
(***************************************************************************)
\* C13: for every student and every module that has a successor, no event of
\* the module is stamped later than any event of the same student in the
\* next module (so none is later than the first of them).
ModulesInSequence ==
    \A a \in DOMAIN events : \A b \in DOMAIN events :
        (/\ events[a].enrollment = events[b].enrollment
         /\ events[b].moduleIndex = events[a].moduleIndex + 1)
            => Timestamp(events[a]) <= Timestamp(events[b])
(***************************************************************************)
(* Helper functions called on their own                                    *)
(***************************************************************************)
RECURSIVE Descending(_)
\* the elements of a set of offsets as a strictly descending list
Descending(offsets) ==
    IF offsets = {}
    THEN <<>>
    ELSE LET top == CHOOSE d \in offsets : \A o \in offsets : o <= d
         IN <<top>> \o Descending(offsets \ {top})

\* the lists of day offsets a window or a slice of a window can be
DayLists == {Descending(offsets) : offsets \in SUBSET (1..MaxOffset)}

InitCalls ==
    /\ enrollments = 1
    /\ lessonsByModule = <<>>
    /\ totalQuestions = 0
    /\ kcMissing = FALSE
    /\ workingDays = <<>>
    /\ pc = "alloc"
    /\ error = "none"
    /\ moduleWorkingDays = <<>>
    /\ i = 0 /\ moduleIndex = 0 /\ lessonIdx = 0 /\ dayIdxOffset = 0
    /\ partialLessonProgress = <<>>
    /\ pendingMasteryChecks = <<>>
    /\ partialIdx = 0 /\ pendingIdx = 0
    /\ dailyStats = <<>>
    /\ events = <<>>
    /\ responses = <<>>
    /\ InsideSeedRun

\* getNextWorkingDay(currentDayOffset, moduleDays)
CallGetNextWorkingDay ==
    /\ \E currentDayOffset \in 1..MaxOffset : \E days \in DayLists :
          /\ callArgs' = [fn |-> "getNextWorkingDay",
                          currentDayOffset |-> currentDayOffset, moduleDays |-> days]
          /\ callResult' = GetNextWorkingDay(currentDayOffset, days)
    /\ UNCHANGED <<seedRun, pacing, cleanup, inputs, groupFunction>>

\* lines 155-158 and the test of line 186, for one lesson of the main pass
CallSplitLesson ==
    /\ \E studentIndex \in 0..MaxIndex : \E lessonIndex \in 0..MaxIndex :
       \E modIndex \in 0..(MaxModules - 1) : \E nQuestions \in 0..MaxQuestions :
          LET split == SplitLesson(studentIndex, lessonIndex, modIndex, nQuestions)
              day1 == QuestionsDay1(split, nQuestions)
              day2 == IF split THEN nQuestions - day1 ELSE 0
          IN /\ callArgs' = [fn |-> "splitLesson", studentIndex |-> studentIndex,
                             lessonIndex |-> lessonIndex, moduleIndex |-> modIndex,
                             totalQuestions |-> nQuestions]
             /\ callResult' = [splitLesson |-> split, questionsDay1 |-> day1,
                               questionsDay2 |-> day2]
    /\ UNCHANGED <<seedRun, pacing, cleanup, inputs, groupFunction>>

\* Math.floor(CONFIG.DAYS_TO_SEED / totalModules)
DaysPerModule(n, totalModules) == n \div totalModules

\* CONFIG.DAYS_TO_SEED - (moduleIndex + 1) * daysPerModule
ModuleStartDay(n, modIndex, totalModules) ==
    n - (modIndex + 1) * DaysPerModule(n, totalModules)

\* moduleStartDay + Math.floor(daysPerModule * 0.8)
AssessmentDayOffset(n, modIndex, totalModules) ==
    ModuleStartDay(n, modIndex, totalModules) + (8 * DaysPerModule(n, totalModules)) \div 10

\* Math.max(0, assessmentDayOffset - aIdx)
AssessmentBaseDayOffset(n, modIndex, totalModules, aIdx) ==
    Max(0, AssessmentDayOffset(n, modIndex, totalModules) - aIdx)

\* seedAssessmentResponses: the day offset of the responses to assessment aIdx
CallAssessmentBaseDayOffset ==
    /\ \E n \in DaysToSeedChoices : \E totalModules \in 1..(MaxModules + 1) :
       \E modIndex \in 0..(totalModules - 1) : \E aIdx \in 0..(MaxAssessments - 1) :
          /\ callArgs' = [fn |-> "assessmentBaseDayOffset", daysToSeed |-> n,
                          moduleIndex |-> modIndex, totalModules |-> totalModules,
                          aIdx |-> aIdx]
          /\ callResult' = AssessmentBaseDayOffset(n, modIndex, totalModules, aIdx)
    /\ UNCHANGED <<seedRun, pacing, cleanup, inputs, groupFunction>>

NextCalls ==
    \/ CallGetNextWorkingDay
    \/ CallSplitLesson
    \/ CallAssessmentBaseDayOffset

SpecCalls == InitCalls /\ [][NextCalls]_vars

(***************************************************************************)
(* C15                                                                     *)
(***************************************************************************)
\* C15: getNextWorkingDay(current, days) returns days[k+1] when current is
\* days[k] and k is not the last index, and max(1, current - 1) when current
\* is absent from days or is its last element; the result r satisfies
\* 1 <= r <= current, and r < current whenever current > 1.
NextWorkingDayIsCloserToToday ==
    (callArgs # <<>> /\ callArgs.fn = "getNextWorkingDay") =>
        LET current == callArgs.currentDayOffset
            days == callArgs.moduleDays
            r == callResult
        IN /\ \A k \in 1..(Len(days) - 1) : days[k] = current => r = days[k + 1]
           /\ (\A k \in 1..(Len(days) - 1) : days[k] # current)
                  => r = (IF current - 1 > 1 THEN current - 1 ELSE 1)
           /\ 1 <= r
           /\ r <= current
           /\ current > 1 => r < current

\* a call that takes the fallback from the last day of a list, and is not on
\* the most recent day
FallbackFromLastDay ==
    /\ callArgs # <<>>
    /\ callArgs.fn = "getNextWorkingDay"
    /\ Len(callArgs.moduleDays) >= 2
    /\ callArgs.moduleDays[Len(callArgs.moduleDays)] = callArgs.currentDayOffset
    /\ callArgs.currentDayOffset > 1
    /\ callResult = callArgs.currentDayOffset - 1
(***************************************************************************)
(* C16                                                                     *)
(***************************************************************************)
\* the day offset of the first half of a queued continuation: the day of the
\* lesson's question 0
FirstDayOffset(item) ==
    LET first == CHOOSE k \in DOMAIN events :
                    /\ events[k].type = "QUESTION_ANSWERED"
                    /\ events[k].question = 0
                    /\ SameLesson(events[k], item)
    IN events[first].daysAgo

\* the continuation was placed by the fallback: the first half is on the last
\* of the student's available days of the module
PlacedByFallback(item) ==
    LET days == AvailableDays(moduleWorkingDays[item.moduleIndex + 1], item.enrollment,
                              enrollments)
    IN days[Len(days)] = FirstDayOffset(item)

\* C16 as stated: where the fallback places the continuation of a split
\* lesson, the continuation is on a calendar day before the lesson's first
\* half (its day offset is larger than the first-day offset).
FallbackContinuationBeforeFirstHalf ==
    \A j \in DOMAIN partialLessonProgress :
        PlacedByFallback(partialLessonProgress[j])
            => partialLessonProgress[j].scheduledDayOffset
                  > FirstDayOffset(partialLessonProgress[j])

\* C16, amended: no continuation of a split lesson is scheduled on a calendar
\* day before the lesson's first half: its day offset is never larger than
\* the first-day offset, it is smaller whenever the first half is not on
\* offset 1, and it is offset 1 itself, the same day, when it is.
ContinuationNeverBeforeFirstHalf ==
    \A j \in DOMAIN partialLessonProgress :
        LET item == partialLessonProgress[j]
        IN /\ item.scheduledDayOffset <= FirstDayOffset(item)
           /\ FirstDayOffset(item) > 1 => item.scheduledDayOffset < FirstDayOffset(item)
           /\ FirstDayOffset(item) = 1 => item.scheduledDayOffset = 1

\* two continuations placed by the fallback, one from a first half on offset 1
\* and one from a first half on an earlier day
FallbackContinuationsQueued ==
    /\ \E j \in DOMAIN partialLessonProgress :
          /\ PlacedByFallback(partialLessonProgress[j])
          /\ FirstDayOffset(partialLessonProgress[j]) = 1
    /\ \E j \in DOMAIN partialLessonProgress :
          /\ PlacedByFallback(partialLessonProgress[j])
          /\ FirstDayOffset(partialLessonProgress[j]) > 1
(***************************************************************************)
(* C17                                                                     *)
(***************************************************************************)
\* the rows a step appends to the events table
NewEvents == SubSeq(events', Len(events) + 1, Len(events'))

\* the questions answered among rows, and the positions of LESSON_COMPLETED
AnsweredIn(rows) == {rows[k].question : k \in {j \in DOMAIN rows : rows[j].type = "QUESTION_ANSWERED"}}
CompletedIn(rows) == {k \in DOMAIN rows : rows[k].type = "LESSON_COMPLETED"}

\* rows holds one LESSON_COMPLETED, after every question row
CompletedAfterQuestions(rows) ==
    /\ Cardinality(CompletedIn(rows)) = 1
    /\ \A c \in CompletedIn(rows) : \A k \in DOMAIN rows :
          rows[k].question # NoQuestion => k < c

QuestionCount(type, enr, mod, les, q) ==
    Cardinality({k \in EventsFor(type, enr, mod, les) : events[k].question = q})

\* C18: when the function finishes, every question of every scheduled lesson
\* has exactly one QUESTION_ANSWERED row, split or not, and exactly one
\* LESSON_QUESTION_SHOWN row if it has a knowledge component and none if it
\* has not; the questions of the other lessons have no row.
OneAnswerPerQuestion ==
    pc = "done" =>
        \A enr \in Students : \A mod \in Modules : \A les \in LessonsOf(mod) :
            \A q \in 0..(totalQuestions - 1) :
                LET hasKc == ~kcMissing \/ q % 2 = 0
                IN /\ QuestionCount("QUESTION_ANSWERED", enr, mod, les, q)
                        = (IF Scheduled(enr, mod, les) THEN 1 ELSE 0)
                   /\ QuestionCount("LESSON_QUESTION_SHOWN", enr, mod, les, q)
                        = (IF Scheduled(enr, mod, les) /\ hasKc THEN 1 ELSE 0)

\* a finished run with a split lesson whose second half holds a question
\* without knowledge component
SplitLessonWithoutKc ==
    /\ pc = "done"
    /\ kcMissing
    /\ totalQuestions >= 4
    /\ \E j \in DOMAIN partialLessonProgress :
          /\ partialLessonProgress[j].questionsCompleted >= 2
          /\ Count("QUESTION_ANSWERED", partialLessonProgress[j].enrollment,
                   partialLessonProgress[j].moduleIndex,
                   partialLessonProgress[j].lessonIndex) = totalQuestions
(***************************************************************************)
(* C19                                                                     *)
(***************************************************************************)
NewResponses == SubSeq(responses', Len(responses) + 1, Len(responses'))

\* a step of the main pass on a lesson that is not split: the mastery check
\* is either queued for getNextWorkingDay with nothing written for it, or its
\* response and its completion are written with the stamp of LESSON_COMPLETED;
\* it is queued exactly when `deferred` holds
NonSplitStepDefers(deferred) ==
    LET completedRow == NewEvents[CHOOSE c \in CompletedIn(NewEvents) : TRUE]
        masteryRows == {k \in DOMAIN NewEvents : NewEvents[k].type = "ASSIGNMENT_COMPLETED"}
    IN IF deferred
       THEN /\ pendingMasteryChecks' =
                  Append(pendingMasteryChecks,
                         [enrollment |-> i, moduleIndex |-> moduleIndex,
                          lessonIndex |-> lessonIdx,
                          scheduledDayOffset |-> GetNextWorkingDay(day1Offset, moduleDays)])
            /\ masteryRows = {}
            /\ NewResponses = <<>>
       ELSE /\ pendingMasteryChecks' = pendingMasteryChecks
            /\ Cardinality(masteryRows) = 1
            /\ \A k \in masteryRows : Timestamp(NewEvents[k]) = Timestamp(completedRow)
            /\ Len(NewResponses) = 1
            /\ Timestamp(NewResponses[1]) = Timestamp(completedRow)

\* C19 as stated: for a lesson that is not split, the mastery check is
\* deferred if and only if (studentIndex + lessonIndex + moduleIndex) mod 5 < 2.
DeferredIffTwoOfFive ==
    [][(/\ pc = "main"
        /\ i < enrollments
        /\ Len(partialLessonProgress') = Len(partialLessonProgress))
           => NonSplitStepDefers((i + lessonIdx + moduleIndex) % 5 < 2)]_vars

\* C19, amended: for a lesson that is not split, the mastery check is
\* deferred if and only if (studentIndex + lessonIndex + moduleIndex) mod 5 < 2
\* and the lesson is not on day offset 1; otherwise the response and the
\* completion are written at once, with the stamp of LESSON_COMPLETED.
DeferredIffTwoOfFiveAndNotLastDay ==
    [][(/\ pc = "main"
        /\ i < enrollments
        /\ Len(partialLessonProgress') = Len(partialLessonProgress))
           => NonSplitStepDefers((i + lessonIdx + moduleIndex) % 5 < 2 /\ day1Offset > 1)]_vars

\* one lesson had its mastery check deferred from an earlier day, another,
\* on day offset 1 and with index sum mod 5 < 2, had it written at once
DeferredAndWrittenOnLastDay ==
    /\ \E j \in DOMAIN pendingMasteryChecks : \A k \in DOMAIN partialLessonProgress :
          ~SameLesson(pendingMasteryChecks[j], partialLessonProgress[k])
    /\ \E e \in DOMAIN events :
          /\ events[e].type = "ASSIGNMENT_COMPLETED"
          /\ events[e].daysAgo = 1
          /\ events[e].hoursOffset = totalQuestions
          /\ (events[e].enrollment + events[e].lessonIndex + events[e].moduleIndex) % 5 < 2
          /\ \A k \in DOMAIN partialLessonProgress : ~SameLesson(events[e], partialLessonProgress[k])
          /\ \A j \in DOMAIN pendingMasteryChecks : ~SameLesson(events[e], pendingMasteryChecks[j])
(***************************************************************************)
(* C20                                                                     *)
(***************************************************************************)
\* C20: when a continuation is drained, its mastery check is deferred exactly
\* when (studentIndex + lessonIndex + moduleIndex) mod 5 < 2 for the
\* continuation's student, lesson and module (and the continuation is not on
\* day offset 1, where nothing is deferred).
ContinuationDelayUsesStudentIndex ==
    [][(pc = "partial" /\ partialIdx < Len(partialLessonProgress)) =>
          (Len(pendingMasteryChecks') > Len(pendingMasteryChecks)
             <=> (/\ (partial.enrollment + partial.lessonIndex + partial.moduleIndex) % 5 < 2
                  /\ partial.scheduledDayOffset > 1))]_vars
(***************************************************************************)
(* C21                                                                     *)
(***************************************************************************)
\* C21: a lesson takes the split branch if and only if
\* (studentIndex + lessonIndex + moduleIndex) mod 10 < 3 and it has at least 2
\* questions; over student indices 0..9 and lesson indices 0..9 with module
\* index 0 and lessons of 2 questions, exactly 30 of the 100 pairs are split.
SplitThreeOfTen ==
    /\ (callArgs # <<>> /\ callArgs.fn = "splitLesson") =>
          ((callResult.splitLesson /\ callResult.questionsDay2 > 0)
              <=> (/\ (callArgs.studentIndex + callArgs.lessonIndex + callArgs.moduleIndex) % 10 < 3
                   /\ callArgs.totalQuestions >= 2))
    /\ Cardinality({pair \in (0..9) \X (0..9) : SplitLesson(pair[1], pair[2], 0, 2)}) = 30

\* a call for a pair whose index sum passes 10 and is split
SplitPastTen ==
    /\ callArgs # <<>>
    /\ callArgs.fn = "splitLesson"
    /\ callArgs.studentIndex + callArgs.lessonIndex + callArgs.moduleIndex >= 10
    /\ callArgs.totalQuestions >= 2
    /\ callResult.splitLesson
    /\ callResult.questionsDay2 > 0
(***************************************************************************)
(* Detailed progress for one lesson: seedDetailedProgressForFirstLesson    *)
(***************************************************************************)
\* Stamps of this function are minutes from `now`, the instant of the call of
\* getTimestamp; Math.random() * 8 hours is a number of minutes in 0..479.
Draws == {0, 479}
\* Math.floor(Math.random() * 5)
DayDraws == 0..4

\* getTimestamp with "yesterday" not moved back by a day
GetTimestampSameDay(period, draw, dayDraw) ==
    CASE period = "today" -> 0 - draw
      [] period = "yesterday" -> 0 - draw
      [] period = "earlier" -> 0 - (2 + dayDraw) * 24 * 60

\* getTimestamp(period)
GetTimestamp(period, draw, dayDraw) ==
    CASE period = "today" -> 0 - draw
      [] period = "yesterday" -> 0 - 24 * 60 - draw
      [] period = "earlier" -> 0 - (2 + dayDraw) * 24 * 60

\* the switch on progressIndex = i % 7
DetailQuestionsCompleted(stu) ==
    CASE stu % 7 = 0 -> 0
      [] stu % 7 = 1 -> 1
      [] stu % 7 = 2 -> 2 + (stu % 2)
      [] OTHER -> 4

DetailLessonCompleted(stu) == stu % 7 \in 3..6

DetailMasteryCheckCompleted(stu) == stu % 7 \in 4..6

DetailTimestampPeriod(stu) ==
    CASE stu % 7 \in {0, 1, 6} -> "today"
      [] stu % 7 = 2 -> "earlier"
      [] OTHER -> "yesterday"

\* firstLesson as seedSandboxData passes it: the last paired lesson of the
\* last module
FirstLessonModule == Len(lessonsByModule) - 1
FirstLessonIndex == lessonsByModule[Len(lessonsByModule)] - 1

DetailRow(type, enr, question, minutes) ==
    [type |-> type, enrollment |-> enr, moduleIndex |-> FirstLessonModule,
     lessonIndex |-> FirstLessonIndex, question |-> question, minutes |-> minutes]

\* the question loop: `if (!question) continue` for a lesson with fewer
\* questions, 15 minutes added per question
RECURSIVE DetailQuestionRows(_, _, _, _)
DetailQuestionRows(enr, fromQ, toQ, base) ==
    IF fromQ >= toQ
    THEN <<>>
    ELSE (IF fromQ < totalQuestions
          THEN (IF HasKc(fromQ)
                THEN <<DetailRow("LESSON_QUESTION_SHOWN", enr, fromQ, base + 15 * fromQ)>>
                ELSE <<>>)
               \o <<DetailRow("QUESTION_ANSWERED", enr, fromQ, base + 15 * fromQ)>>
          ELSE <<>>)
         \o DetailQuestionRows(enr, fromQ + 1, toQ, base)

\* the rows of one student, base and today being the two getTimestamp results
DetailStudentRows(stu, base, today) ==
    LET done == DetailQuestionsCompleted(stu)
        lessonCompletion == base + 15 * done + 5
        mastery == IF stu % 7 = 4 THEN today ELSE lessonCompletion + 5
    IN IF stu % 7 = 0
       THEN <<>>
       ELSE DetailQuestionRows(stu, 0, done, base)
            \o (IF DetailLessonCompleted(stu)
                THEN <<DetailRow("LESSON_COMPLETED", stu, NoQuestion, lessonCompletion)>>
                     \o (IF DetailMasteryCheckCompleted(stu)
                         THEN <<DetailRow("RESPONSE", stu, NoQuestion, mastery),
                                DetailRow("ASSIGNMENT_COMPLETED", stu, NoQuestion, mastery)>>
                         ELSE <<>>)
                ELSE <<>>)

\* part_004 lines 275-285: the call, made when the last module has a paired lesson
StartDetailedProgress ==
    /\ pc = "done"
    /\ Len(lessonsByModule) > 0
    /\ lessonsByModule[Len(lessonsByModule)] > 0
    /\ pc' = "detailed"
    /\ detailI' = 0
    /\ UNCHANGED <<call, seedRun, pacing, cleanup, standalone, inputs, error, moduleWorkingDays, cursor, queues,
                   partialIdx, pendingIdx, dailyStats, events, responses, detailRows>>

\* one iteration of the student loop
SeedDetailedProgressForStudent ==
    /\ pc = "detailed"
    /\ detailI < enrollments
    /\ \E draw \in Draws : \E dayDraw \in DayDraws : \E todayDraw \in Draws :
          detailRows' = detailRows
              \o DetailStudentRows(detailI,
                                   GetTimestamp(DetailTimestampPeriod(detailI), draw, dayDraw),
                                   GetTimestamp("today", todayDraw, 0))
    /\ detailI' = detailI + 1
    /\ UNCHANGED <<call, seedRun, pacing, cleanup, standalone, inputs, pc, error, moduleWorkingDays, cursor, queues,
                   partialIdx, pendingIdx, dailyStats, events, responses>>

\* the student loop is over: the function returns
FinishDetailedProgress ==
    /\ pc = "detailed"
    /\ detailI >= enrollments
    /\ pc' = "detailedDone"
    /\ UNCHANGED <<call, seedRun, pacing, cleanup, standalone, detailed, inputs, error, moduleWorkingDays, cursor,
                   queues, partialIdx, pendingIdx, dailyStats, events, responses>>

\* the function called on its own for one lesson
InitDetailed ==
    /\ enrollments \in 1..MaxDetailStudents
    /\ lessonsByModule = <<1>>
    /\ totalQuestions \in 0..MaxQuestions
    /\ kcMissing \in BOOLEAN
    /\ workingDays = <<>>
    /\ pc = "detailed"
    /\ error = "none"
    /\ moduleWorkingDays = <<>>
    /\ i = 0 /\ moduleIndex = 0 /\ lessonIdx = 0 /\ dayIdxOffset = 0
    /\ partialLessonProgress = <<>>
    /\ pendingMasteryChecks = <<>>
    /\ partialIdx = 0 /\ pendingIdx = 0
    /\ dailyStats = <<>>
    /\ events = <<>>
    /\ responses = <<>>
    /\ InsideSeedRun

NextDetailed ==
    \/ SeedDetailedProgressForStudent
    \/ FinishDetailedProgress

SpecDetailed == InitDetailed /\ [][NextDetailed]_vars

(***************************************************************************)
(* C25                                                                     *)
(***************************************************************************)
\* the place of a row in the chain Q1, Q2, Q3, Q4, LESSON_COMPLETED, mastery
\* check of its student
DetailRank(row) ==
    CASE row.type \in {"LESSON_QUESTION_SHOWN", "QUESTION_ANSWERED"} -> row.question
      [] row.type = "LESSON_COMPLETED" -> 4
      [] OTHER -> 5

\* C25: for every student and every value of the random base timestamps, the
\* stamps seedDetailedProgressForFirstLesson writes are strictly ordered
\* Q1 < Q2 < Q3 < Q4 < LESSON_COMPLETED < mastery-check completion, also
\* where (index mod 7 = 4) the mastery check has a "today" stamp of its own.
DetailedStampsOrdered ==
    \A a \in DOMAIN detailRows : \A b \in DOMAIN detailRows :
        (/\ detailRows[a].enrollment = detailRows[b].enrollment
         /\ DetailRank(detailRows[a]) < DetailRank(detailRows[b]))
            => detailRows[a].minutes < detailRows[b].minutes

\* student 4 completed the lesson as late as "yesterday" allows and the
\* mastery check as early as "today" allows
LatestLessonEarliestMasteryCheck ==
    \E a \in DOMAIN detailRows : \E b \in DOMAIN detailRows :
        /\ detailRows[a].enrollment = 4
        /\ detailRows[b].enrollment = 4
        /\ detailRows[a].type = "LESSON_COMPLETED"
        /\ detailRows[b].type = "ASSIGNMENT_COMPLETED"
        /\ detailRows[a].minutes = 0 - 24 * 60 + 4 * 15 + 5
        /\ detailRows[b].minutes = 0 - 479

(***************************************************************************)
(* Ramp-up lessons: seedStandaloneLessonEvents                             *)
(***************************************************************************)
\* Math.max(1, baseDayOffset - Math.floor(i / 4)) with
\* baseDayOffset = daysToSeed - moduleIndex * Math.floor(daysToSeed / 2) - lessonIdx
StandaloneDayOffset(n, mod, les, stu) ==
    Max(1, (n - mod * (n \div 2) - les) - (stu \div 4))

\* the rows of one student for one standalone lesson: the questions at hours
\* (i % 4) + q, then LESSON_COMPLETED at (i % 4) + questions.length
StandaloneStudentRows(stu, mod, les) ==
    LET day == StandaloneDayOffset(daysToSeed, mod, les, stu)
    IN QuestionRows(stu, mod, les, 0, totalQuestions, day, 0 - (stu % 4))
       \o <<Event("LESSON_COMPLETED", stu, mod, les, NoQuestion, day,
                  (stu % 4) + totalQuestions)>>

\* the student loop of one lesson, from student stu on
RECURSIVE StandaloneLessonRows(_, _, _)
StandaloneLessonRows(stu, mod, les) ==
    IF stu >= enrollments
    THEN <<>>
    ELSE StandaloneStudentRows(stu, mod, les) \o StandaloneLessonRows(stu + 1, mod, les)

\* lines 635-660: one standalone lesson of one module, for every student
SeedStandaloneLesson ==
    /\ pc = "standalone"
    /\ standaloneCount > 0
    /\ standaloneModule < Len(lessonsByModule)
    /\ standaloneRows' = standaloneRows
                            \o StandaloneLessonRows(0, standaloneModule, standaloneLesson)
    /\ IF standaloneLesson + 1 < standaloneCount
       THEN /\ standaloneLesson' = standaloneLesson + 1
            /\ standaloneModule' = standaloneModule
       ELSE /\ standaloneLesson' = 0
            /\ standaloneModule' = standaloneModule + 1
    /\ UNCHANGED <<call, seedRun, pacing, cleanup, detailed, inputs, pc, error, moduleWorkingDays, cursor, queues,
                   partialIdx, pendingIdx, dailyStats, events, responses>>

\* the module loop is over; seedSandboxData goes on to seedProgressEventsForGroup
EndStandalone ==
    /\ pc = "standalone"
    /\ standaloneCount = 0 \/ standaloneModule >= Len(lessonsByModule)
    /\ pc' = "alloc"
    /\ UNCHANGED <<call, seedRun, pacing, cleanup, standalone, detailed, inputs, error, moduleWorkingDays, cursor,
                   queues, partialIdx, pendingIdx, dailyStats, events, responses>>

(***************************************************************************)
(* The event seeding of one group, as seedSandboxData orders it            *)
(***************************************************************************)
InitGroup ==
    /\ OutsidePacing
    /\ OutsideCleanup
    /\ utcOffset = 0
    /\ daysToSeed \in DaysToSeedChoices
    /\ \E dow \in 0..6 : workingDays = WorkingDays(daysToSeed, dow)
    /\ standaloneCount \in 0..MaxStandalone
    /\ enrollments \in 1..MaxStudents
    /\ lessonsByModule \in LessonCountLists
    /\ totalQuestions \in 0..MaxQuestions
    /\ kcMissing = FALSE
    /\ pc = "standalone"
    /\ error = "none"
    /\ moduleWorkingDays = <<>>
    /\ i = 0 /\ moduleIndex = 0 /\ lessonIdx = 0 /\ dayIdxOffset = 0
    /\ partialLessonProgress = <<>>
    /\ pendingMasteryChecks = <<>>
    /\ partialIdx = 0 /\ pendingIdx = 0
    /\ dailyStats = <<>>
    /\ events = <<>>
    /\ responses = <<>>
    /\ standaloneModule = 0 /\ standaloneLesson = 0
    /\ standaloneRows = <<>>
    /\ detailI = 0
    /\ detailRows = <<>>
    /\ postgresUrlLocal = TRUE
    /\ teacherExists = TRUE
    /\ namesStale = FALSE
    /\ runPc = "seeding"
    /\ run = 1
    /\ groupIndex = 0
    /\ eventsTable = {}
    /\ dbWrites = 0
    /\ callArgs = <<>>
    /\ callResult = 0

NextGroup ==
    \/ SeedStandaloneLesson
    \/ EndStandalone
    \/ Next
    \/ StartDetailedProgress
    \/ NextDetailed

SpecGroup == InitGroup /\ [][NextGroup]_vars

(***************************************************************************)
(* C24                                                                     *)
(***************************************************************************)
\* the rows of a type that the events table holds for a student and the
\* lesson of the detailed progress, whichever function wrote them
FirstLessonRows(type, stu) ==
    Cardinality({k \in DOMAIN events :
                    /\ events[k].type = type
                    /\ events[k].enrollment = stu
                    /\ events[k].moduleIndex = FirstLessonModule
                    /\ events[k].lessonIndex = FirstLessonIndex})
      + Cardinality({k \in DOMAIN detailRows :
                        detailRows[k].type = type /\ detailRows[k].enrollment = stu})

\* C24: when seedProgressEventsForGroup and then
\* seedDetailedProgressForFirstLesson have run, a student with index mod 7 = 0
\* ("Not started") has no event for the lesson of the detailed progress, and
\* a student with index mod 7 = 3 ("mastery check pending") has a
\* LESSON_COMPLETED for it and no mastery-check completion.
DetailedStateIsEventState ==
    pc = "detailedDone" =>
        \A stu \in Students :
            /\ stu % 7 = 0 => \A type \in ProgressTypes : FirstLessonRows(type, stu) = 0
            /\ stu % 7 = 3 => /\ FirstLessonRows("LESSON_COMPLETED", stu) >= 1
                              /\ FirstLessonRows("ASSIGNMENT_COMPLETED", stu) = 0

(***************************************************************************)
(* C26                                                                     *)
(***************************************************************************)
\* C26: once seedStandaloneLessonEvents has returned, every student has, for
\* every standalone lesson, exactly one LESSON_COMPLETED, stamped after all
\* question events of that lesson; and each ramp-up LESSON_COMPLETED is
\* stamped no later than any paired-lesson event of the same student and
\* module (so no later than the first of them).
RampUpBeforePaired ==
    /\ pc # "standalone" =>
          \A stu \in Students : \A mod \in Modules : \A les \in 0..(standaloneCount - 1) :
              LET rows == {k \in DOMAIN standaloneRows :
                              /\ standaloneRows[k].enrollment = stu
                              /\ standaloneRows[k].moduleIndex = mod
                              /\ standaloneRows[k].lessonIndex = les}
                  completed == {k \in rows : standaloneRows[k].type = "LESSON_COMPLETED"}
              IN /\ Cardinality(completed) = 1
                 /\ \A c \in completed : \A k \in rows \ completed :
                        Timestamp(standaloneRows[k]) < Timestamp(standaloneRows[c])
    /\ \A r \in DOMAIN standaloneRows : \A e \in DOMAIN events :
          (/\ standaloneRows[r].type = "LESSON_COMPLETED"
           /\ standaloneRows[r].enrollment = events[e].enrollment
           /\ standaloneRows[r].moduleIndex = events[e].moduleIndex)
              => Timestamp(standaloneRows[r]) <= Timestamp(events[e])

(***************************************************************************)
(* C27                                                                     *)
(***************************************************************************)
\* C27: for every module index m < totalModules, the day offset of module m's
\* assessment responses is never negative and lies in module m's day window
\* [DAYS_TO_SEED - (m+1)*daysPerModule, DAYS_TO_SEED - m*daysPerModule], in
\* its most recent fifth: no more than 20% of daysPerModule above the
\* window's smallest offset.
AssessmentInLastFifth ==
    (callArgs # <<>> /\ callArgs.fn = "assessmentBaseDayOffset") =>
        LET daysPerModule == callArgs.daysToSeed \div callArgs.totalModules
            newest == callArgs.daysToSeed - (callArgs.moduleIndex + 1) * daysPerModule
            oldest == callArgs.daysToSeed - callArgs.moduleIndex * daysPerModule
        IN /\ callResult >= 0
           /\ callResult >= newest
           /\ callResult <= oldest
           /\ 5 * (callResult - newest) <= daysPerModule

(***************************************************************************)
(* Pacing configuration: pacing.ts and its calls in seedSandboxData        *)
(***************************************************************************)
\* CONFIG.MODULE_IDS
MODULE_IDS == <<10, 11>>

\* what a fetch can come to: response.ok, status 404, another status, or a
\* rejected promise (network error)
HttpOutcomes == {"ok", "notFound", "serverError", "exception"}

\* deletePacingConfig without its try/catch: a rejected fetch leaves the function
DeleteReturnsUncaught(outcome) ==
    CASE outcome = "ok" -> "true"
      [] outcome = "exception" -> "throws"
      [] OTHER -> "false"

\* deletePacingConfig: true on response.ok, false on 404, on another status
\* and in the catch block
DeleteReturns(outcome) == IF outcome = "ok" THEN "true" ELSE "false"

\* createPacingConfig: true on response.ok, false otherwise and in the catch block
CreateReturns(outcome) == IF outcome = "ok" THEN "true" ELSE "false"

\* the assignments createAllLessonsForModule(groupId, moduleId) inserts and
\* assigns to the group: each call INSERTs its own rows, an id is told apart
\* by the call that made it
LessonIds(groupId, modIndex) ==
    {[group |-> groupId, module |-> MODULE_IDS[modIndex + 1], kind |-> "standalone", lesson |-> l]
        : l \in 0..(standaloneCount - 1)}
    \cup {[group |-> groupId, module |-> MODULE_IDS[modIndex + 1], kind |-> k, lesson |-> l]
             : k \in {"lesson", "masteryCheck"}, l \in 0..(lessonsByModule[modIndex + 1] - 1)}

\* lessonsForPacing: firstGroupLessons[moduleIndex], the lessons of CONFIG.GROUP_IDS[0]
LessonsForPacing(modIndex) == LessonIds(GROUP_IDS[1], modIndex)

Request(method, groupId, moduleId, assignments) ==
    [method |-> method, groupId |-> groupId, moduleId |-> moduleId,
     assignments |-> assignments]

\* cleanupPacingData without an API key: returns before the loops
SkipPacingCleanup ==
    /\ pacingPc = "cleanup"
    /\ ~apiKey
    /\ pacingPc' = "create"
    /\ UNCHANGED <<call, seedRun, inputs, groupFunction, cleanup, apiKey, pacingGroup, pacingModule,
                   requests, deletedCount, createdCount>>

\* cleanupPacingData, one (group, module) pair: deletePacingConfig
DeletePacingConfig ==
    /\ pacingPc = "cleanup"
    /\ apiKey
    /\ pacingGroup < Len(GROUP_IDS)
    /\ \E outcome \in HttpOutcomes :
          LET returned == DeleteReturns(outcome)
          IN /\ callArgs' = [fn |-> "deletePacingConfig", groupId |-> GROUP_IDS[pacingGroup + 1],
                             moduleId |-> MODULE_IDS[pacingModule + 1], outcome |-> outcome]
             /\ callResult' = returned
             /\ deletedCount' = IF returned = "true" THEN deletedCount + 1 ELSE deletedCount
             /\ IF returned = "throws"
                THEN /\ pacingPc' = "aborted"
                     /\ UNCHANGED <<pacingGroup, pacingModule>>
                ELSE /\ pacingPc' = pacingPc
                     /\ IF pacingModule + 1 < Len(MODULE_IDS)
                        THEN pacingModule' = pacingModule + 1 /\ pacingGroup' = pacingGroup
                        ELSE pacingModule' = 0 /\ pacingGroup' = pacingGroup + 1
    /\ requests' = Append(requests, Request("DELETE", GROUP_IDS[pacingGroup + 1],
                                            MODULE_IDS[pacingModule + 1], {}))
    /\ UNCHANGED <<seedRun, inputs, groupFunction, cleanup, apiKey, createdCount>>

\* the loops of cleanupPacingData are over; the groups are seeded and
\* seedSandboxData comes to step 4b
EndPacingCleanup ==
    /\ pacingPc = "cleanup"
    /\ apiKey
    /\ pacingGroup >= Len(GROUP_IDS)
    /\ pacingPc' = "create"
    /\ pacingGroup' = 0
    /\ pacingModule' = 0
    /\ UNCHANGED <<call, seedRun, inputs, groupFunction, cleanup, apiKey, requests, deletedCount,
                   createdCount>>

\* createPacingConfigs for one module without an API key: returns at once
SkipPacingCreation ==
    /\ pacingPc = "create"
    /\ ~apiKey
    /\ pacingModule < Len(MODULE_IDS)
    /\ pacingModule' = pacingModule + 1
    /\ UNCHANGED <<call, seedRun, inputs, groupFunction, cleanup, apiKey, pacingPc, pacingGroup, requests,
                   deletedCount, createdCount>>

\* createPacingConfigs, one group of groupIds: createPacingConfig POSTs the
\* lessons it was handed
CreatePacingConfig ==
    /\ pacingPc = "create"
    /\ apiKey
    /\ pacingModule < Len(MODULE_IDS)
    /\ \E outcome \in HttpOutcomes :
          LET returned == CreateReturns(outcome)
              created == IF returned = "true" THEN 1 ELSE 0
          IN /\ callArgs' = [fn |-> "createPacingConfig", groupId |-> GROUP_IDS[pacingGroup + 1],
                             moduleId |-> MODULE_IDS[pacingModule + 1], outcome |-> outcome]
             /\ callResult' = returned
             /\ IF pacingGroup + 1 < Len(GROUP_IDS)
                THEN /\ pacingGroup' = pacingGroup + 1
                     /\ pacingModule' = pacingModule
                     /\ createdCount' = createdCount + created
                ELSE /\ pacingGroup' = 0
                     /\ pacingModule' = pacingModule + 1
                     /\ createdCount' = 0
             /\ UNCHANGED pacingPc
    /\ requests' = Append(requests, Request("POST", GROUP_IDS[pacingGroup + 1],
                                            MODULE_IDS[pacingModule + 1],
                                            LessonsForPacing(pacingModule)))
    /\ UNCHANGED <<seedRun, inputs, groupFunction, cleanup, apiKey, deletedCount>>

\* the module loop of step 4b is over
EndPacingCreation ==
    /\ pacingPc = "create"
    /\ pacingModule >= Len(MODULE_IDS)
    /\ pacingPc' = "done"
    /\ UNCHANGED <<call, seedRun, inputs, groupFunction, cleanup, apiKey, pacingGroup, pacingModule,
                   requests, deletedCount, createdCount>>

InitPacing ==
    /\ OutsideCleanup
    /\ apiKey \in BOOLEAN
    /\ pacingPc = "cleanup"
    /\ pacingGroup = 0 /\ pacingModule = 0
    /\ requests = <<>>
    /\ deletedCount = 0 /\ createdCount = 0
    /\ utcOffset = 0
    /\ daysToSeed = 0
    /\ standaloneCount \in 0..MaxStandalone
    /\ enrollments = 1
    /\ \E count \in 0..MaxLessons : lessonsByModule = [m \in 1..Len(MODULE_IDS) |-> count]
    /\ totalQuestions = 0
    /\ kcMissing = FALSE
    /\ workingDays = <<>>
    /\ pc = "alloc"
    /\ error = "none"
    /\ moduleWorkingDays = <<>>
    /\ i = 0 /\ moduleIndex = 0 /\ lessonIdx = 0 /\ dayIdxOffset = 0
    /\ partialLessonProgress = <<>>
    /\ pendingMasteryChecks = <<>>
    /\ partialIdx = 0 /\ pendingIdx = 0
    /\ dailyStats = <<>>
    /\ events = <<>>
    /\ responses = <<>>
    /\ standaloneModule = 0 /\ standaloneLesson = 0
    /\ standaloneRows = <<>>
    /\ detailI = 0
    /\ detailRows = <<>>
    /\ postgresUrlLocal = TRUE
    /\ teacherExists = TRUE
    /\ namesStale = FALSE
    /\ runPc = "seeding"
    /\ run = 1
    /\ groupIndex = 0
    /\ eventsTable = {}
    /\ dbWrites = 0
    /\ callArgs = <<>>
    /\ callResult = 0

NextPacing ==
    \/ SkipPacingCleanup
    \/ DeletePacingConfig
    \/ EndPacingCleanup
    \/ SkipPacingCreation
    \/ CreatePacingConfig
    \/ EndPacingCreation

SpecPacing == InitPacing /\ [][NextPacing]_vars

(***************************************************************************)
(* C28                                                                     *)
(***************************************************************************)
\* the requests of a run with an API key in which no call is cut short: a
\* DELETE for every group and module, then a POST for every module and group
RECURSIVE PairsInOrder(_, _, _, _)
PairsInOrder(method, outer, inner, groupIsOuter) ==
    IF outer = <<>>
    THEN <<>>
    ELSE [k \in 1..Len(inner) |->
            IF groupIsOuter
            THEN <<method, Head(outer), inner[k]>>
            ELSE <<method, inner[k], Head(outer)>>]
         \o PairsInOrder(method, Tail(outer), inner, groupIsOuter)

AllPacingRequests ==
    PairsInOrder("DELETE", GROUP_IDS, MODULE_IDS, TRUE)
        \o PairsInOrder("POST", MODULE_IDS, GROUP_IDS, FALSE)

\* C28: a pacing-API failure never aborts the run: whatever the HTTP outcome
\* (a status that is not OK, 404, a network exception), deletePacingConfig
\* and createPacingConfig return false and throw nothing, and
\* cleanupPacingData and createPacingConfigs go on to the remaining group and
\* module pairs, so that a finished run has asked for every pair; without an
\* API key no HTTP request is issued.
PacingFailureNeverAborts ==
    /\ pacingPc # "aborted"
    /\ (callArgs # <<>> /\ callArgs.fn \in {"deletePacingConfig", "createPacingConfig"}) =>
          callResult = (IF callArgs.outcome = "ok" THEN "true" ELSE "false")
    /\ ~apiKey => requests = <<>>
    /\ (pacingPc = "done" /\ apiKey) =>
          [k \in DOMAIN requests |->
              <<requests[k].method, requests[k].groupId, requests[k].moduleId>>]
            = AllPacingRequests

\* a finished run in which no DELETE succeeded, the last POST met a network
\* exception and yet every pair was asked for
EveryPairTriedDespiteFailures ==
    /\ pacingPc = "done"
    /\ apiKey
    /\ deletedCount = 0
    /\ callArgs.outcome = "exception"
    /\ Len(requests) = 2 * Len(GROUP_IDS) * Len(MODULE_IDS)

(***************************************************************************)
(* C30                                                                     *)
(***************************************************************************)
\* C30: every pacing configuration POSTed for a group and a module lists only
\* assignments that this run created and assigned to that group for that
\* module.
PacingListsOwnAssignments ==
    \A k \in DOMAIN requests :
        requests[k].method = "POST" =>
            \A id \in requests[k].assignments :
                /\ id.group = requests[k].groupId
                /\ id.module = requests[k].moduleId

(***************************************************************************)
(* cleanupSandboxData: cleanup.ts                                          *)
(*                                                                         *)
(* The database is a record of sets of rows.  A row carries the columns    *)
(* the seed's INSERT statements fill with the key of another row; a row    *)
(* without a key column of its own is known by its columns.  cleanupEvents *)
(* is left out here (CleanupEvents above): events rows hold no key of      *)
(* another table and no table refers to them.                              *)
(***************************************************************************)
\* students.ts: the seed's students have sandbox.*@test.local e-mail addresses
SeedStudents == {"s1", "s2"}

\* a student of the group the seed did not create
OtherStudents == {"r1"}

\* assignments are told apart by what they are and the group they were made for
Lesson(groupId) == <<"Lesson 1: Topic", groupId>>
MasteryCheck(groupId) == <<"Lesson 1: Topic (mastery check)", groupId>>
Assessment == <<"Unit 1 Assessment", 0>>

\* createLessonQuestions / createMasteryCheckAssignment / createAssessment: the
\* question made for an assignment, and the KC made for a lesson question
QuestionOf(assignment) == [questionOf |-> assignment]
KcOf(assignment) == [kcOf |-> assignment]
NoKc == [kcOf |-> <<"", 0>>]

\* createMasteryCheckResponse, seedAssessmentResponses: a response and its
\* assignment_question_responses row
ResponseRow(enrollment, assignment) ==
    [enrollment_id |-> enrollment, question_id |-> QuestionOf(assignment)]
AqrRow(enrollment, assignment, groupId) ==
    [response_id |-> ResponseRow(enrollment, assignment),
     assignment_question_id |-> <<assignment, QuestionOf(assignment)>>,
     assigned_assignment_id |-> <<assignment, groupId>>]

\* the rows an earlier seed run left for the students of `enrolled` (pairs of
\* student and group), of whom `responders` completed the mastery check and
\* the assessment
SeededTables(enrolled, responders, seeded) ==
    LET groups == IF seeded THEN {GROUP_IDS[k] : k \in DOMAIN GROUP_IDS} ELSE {}
        lessons == {Lesson(g) : g \in groups}
        checks == {MasteryCheck(g) : g \in groups}
        tests == IF seeded THEN {Assessment} ELSE {}
        answering == {e \in enrolled : e[1] \in responders /\ e[2] \in groups}
    IN [users |-> {e[1] : e \in enrolled},
        student_profiles |-> {e[1] : e \in enrolled},
        enrollments |-> enrolled,
        responses |-> {ResponseRow(e, MasteryCheck(e[2])) : e \in answering}
                          \cup {ResponseRow(e, Assessment) : e \in answering},
        assignment_question_responses |->
            {AqrRow(e, MasteryCheck(e[2]), e[2]) : e \in answering}
                \cup {AqrRow(e, Assessment, e[2]) : e \in answering},
        assignments |-> lessons \cup checks \cup tests,
        assigned_assignments |->
            {<<Lesson(g), g>> : g \in groups} \cup {<<MasteryCheck(g), g>> : g \in groups}
                \cup {<<Assessment, g>> : g \in groups},
        assignment_prerequisites |->
            {[assignment_id |-> MasteryCheck(g), prereq_assignment_id |-> Lesson(g)] : g \in groups},
        assignment_modules |-> {<<a, MODULE_IDS[1]>> : a \in lessons \cup checks \cup tests},
        assignment_questions |-> {<<a, QuestionOf(a)>> : a \in lessons \cup checks \cup tests},
        questions |->
            {[id |-> QuestionOf(a), knowledge_component_id |-> KcOf(a)] : a \in lessons}
                \cup {[id |-> QuestionOf(a), knowledge_component_id |-> NoKc] : a \in checks \cup tests},
        knowledge_components |->
            {[id |-> KcOf(a), original_question_id |-> QuestionOf(a)] : a \in lessons}]

\* the orders in which a SELECT without ORDER BY can return the rows of a set
RECURSIVE Orders(_)
Orders(rows) ==
    IF rows = {}
    THEN {<<>>}
    ELSE UNION {{<<row>> \o rest : rest \in Orders(rows \ {row})} : row \in rows}

\* DELETE FROM table the rows of `rows`
Delete(table, rows) ==
    /\ tables' = [tables EXCEPT ![table] = @ \ rows]
    /\ deleteLog' = IF tables[table] \cap rows = {} THEN deleteLog ELSE Append(deleteLog, table)

\* a statement that deletes no assignment_question_responses row
AqrOfNoResponse(enrollment) == {}

\* WHERE response_id IN (SELECT id FROM responses WHERE enrollment_id = ...)
AqrOfResponses(enrollment) ==
    {x \in tables.assignment_question_responses : x.response_id.enrollment_id = enrollment}

\* WHERE assigned_assignment_id IN (SELECT id FROM assigned_assignments
\* WHERE assignment_id = ...)
AqrOfAssignment(assignment) ==
    {x \in tables.assignment_question_responses :
        /\ x.assigned_assignment_id \in tables.assigned_assignments
        /\ x.assigned_assignment_id[1] = assignment}

\* title LIKE 'Unit % Lesson %: Topic %' OR ... OR 'Ramp Up %:%'
IsSeedLessonTitle(title) ==
    title \in {"Lesson 1: Topic", "Lesson 1: Topic (mastery check)"}

\* cleanupSeedStudents, the SELECT of a group's seed enrollments; a group
\* without any is passed over
SelectSeedEnrollments ==
    /\ cleanupPc = "seedEnrollments"
    /\ cleanupGroup < Len(GROUP_IDS)
    /\ LET found == {e \in tables.enrollments :
                        /\ e[2] = GROUP_IDS[cleanupGroup + 1]
                        /\ e[1] \in tables.student_profiles
                        /\ e[1] \in SeedStudents}
       IN IF found = {}
          THEN /\ cleanupGroup' = cleanupGroup + 1
               /\ UNCHANGED <<cleanupPc, seedEnrollments>>
          ELSE /\ seedEnrollments' \in Orders(found)
               /\ cleanupPc' = "allEnrollments"
               /\ UNCHANGED cleanupGroup
    /\ UNCHANGED <<call, seedRun, pacing, inputs, groupFunction, tables, deleteLog,
                   allEnrollments, assignmentIds, seedKCs, questions, assessmentIds, cleanupIdx>>

\* the SELECT of all enrollments of the student at hand
SelectAllEnrollments ==
    /\ cleanupPc = "allEnrollments"
    /\ LET found == {e \in tables.enrollments : e[1] = Head(seedEnrollments)[1]}
       IN /\ allEnrollments' \in Orders(found)
          /\ cleanupPc' = IF found = {} THEN "enrollments" ELSE "responsesAqr"
    /\ UNCHANGED <<call, seedRun, pacing, inputs, groupFunction, tables, deleteLog,
                   cleanupGroup, seedEnrollments, assignmentIds, seedKCs, questions,
                   assessmentIds, cleanupIdx>>

\* DELETE FROM assignment_question_responses WHERE response_id IN (...)
DeleteAqrOfResponses ==
    /\ cleanupPc = "responsesAqr"
    /\ Delete("assignment_question_responses", AqrOfResponses(Head(allEnrollments)))
    /\ cleanupPc' = "responses"
    /\ UNCHANGED <<call, seedRun, pacing, inputs, groupFunction, cleanupLoops>>

\* DELETE FROM responses WHERE enrollment_id = ...; then the next enrollment
DeleteResponses ==
    /\ cleanupPc = "responses"
    /\ Delete("responses", {r \in tables.responses : r.enrollment_id = Head(allEnrollments)})
    /\ allEnrollments' = Tail(allEnrollments)
    /\ cleanupPc' = IF Tail(allEnrollments) = <<>> THEN "enrollments" ELSE "responsesAqr"
    /\ UNCHANGED <<call, seedRun, pacing, inputs, groupFunction, cleanupGroup, seedEnrollments,
                   assignmentIds, seedKCs, questions, assessmentIds, cleanupIdx>>

\* DELETE FROM enrollments WHERE student_profile_id = ...
DeleteEnrollments ==
    /\ cleanupPc = "enrollments"
    /\ Delete("enrollments", {e \in tables.enrollments : e[1] = Head(seedEnrollments)[1]})
    /\ cleanupPc' = "student_profiles"
    /\ UNCHANGED <<call, seedRun, pacing, inputs, groupFunction, cleanupLoops>>

\* DELETE FROM student_profiles WHERE id = ...
DeleteStudentProfile ==
    /\ cleanupPc = "student_profiles"
    /\ Delete("student_profiles", {Head(seedEnrollments)[1]})
    /\ cleanupPc' = "users"
    /\ UNCHANGED <<call, seedRun, pacing, inputs, groupFunction, cleanupLoops>>

\* DELETE FROM auth.users WHERE id = ...; then the next seed enrollment, or
\* the next group
DeleteAuthUser ==
    /\ cleanupPc = "users"
    /\ Delete("users", {Head(seedEnrollments)[1]})
    /\ seedEnrollments' = Tail(seedEnrollments)
    /\ IF Tail(seedEnrollments) = <<>>
       THEN cleanupPc' = "seedEnrollments" /\ cleanupGroup' = cleanupGroup + 1
       ELSE cleanupPc' = "allEnrollments" /\ UNCHANGED cleanupGroup
    /\ UNCHANGED <<call, seedRun, pacing, inputs, groupFunction, allEnrollments,
                   assignmentIds, seedKCs, questions, assessmentIds, cleanupIdx>>

\* cleanupSeedStudents is over; cleanupSeedAssignments SELECTs the
\* assignments of the seed's titles and returns if there is none
SelectOldAssignments ==
    /\ cleanupPc = "seedEnrollments"
    /\ cleanupGroup >= Len(GROUP_IDS)
    /\ LET found == {a \in tables.assignments : IsSeedLessonTitle(a[1])}
       IN /\ assignmentIds' \in Orders(found)
          /\ cleanupPc' = IF found = {} THEN "seedKCs" ELSE "assignmentAqr"
    /\ cleanupIdx' = 1
    /\ UNCHANGED <<call, seedRun, pacing, inputs, groupFunction, tables, deleteLog,
                   cleanupGroup, seedEnrollments, allEnrollments, seedKCs, questions,
                   assessmentIds>>

\* the position after one turn of a loop over `ids`: the next id, or the
\* first id again and the statement `after` the loop
LoopOver(ids, again, after) ==
    IF cleanupIdx < Len(ids)
    THEN cleanupIdx' = cleanupIdx + 1 /\ cleanupPc' = again
    ELSE cleanupIdx' = 1 /\ cleanupPc' = after

\* first loop: DELETE FROM assignment_question_responses WHERE
\* assigned_assignment_id IN (...)
DeleteAqrOfAssignment ==
    /\ cleanupPc = "assignmentAqr"
    /\ Delete("assignment_question_responses", AqrOfAssignment(assignmentIds[cleanupIdx]))
    /\ LoopOver(assignmentIds, "assignmentAqr", "assigned_assignments")
    /\ UNCHANGED <<call, seedRun, pacing, inputs, groupFunction, cleanupGroup, seedEnrollments,
                   allEnrollments, assignmentIds, seedKCs, questions, assessmentIds>>

\* second loop: DELETE FROM assigned_assignments WHERE assignment_id = ...
DeleteAssignedAssignments ==
    /\ cleanupPc = "assigned_assignments"
    /\ Delete("assigned_assignments",
              {x \in tables.assigned_assignments : x[1] = assignmentIds[cleanupIdx]})
    /\ cleanupPc' = "assignment_prerequisites"
    /\ UNCHANGED <<call, seedRun, pacing, inputs, groupFunction, cleanupLoops>>

\* DELETE FROM assignment_prerequisites WHERE assignment_id = ... OR
\* prereq_assignment_id = ...
DeleteAssignmentPrerequisites ==
    /\ cleanupPc = "assignment_prerequisites"
    /\ Delete("assignment_prerequisites",
              {x \in tables.assignment_prerequisites :
                  \/ x.assignment_id = assignmentIds[cleanupIdx]
                  \/ x.prereq_assignment_id = assignmentIds[cleanupIdx]})
    /\ cleanupPc' = "assignment_modules"
    /\ UNCHANGED <<call, seedRun, pacing, inputs, groupFunction, cleanupLoops>>

\* DELETE FROM assignment_modules WHERE assignment_id = ...
DeleteAssignmentModules ==
    /\ cleanupPc = "assignment_modules"
    /\ Delete("assignment_modules",
              {x \in tables.assignment_modules : x[1] = assignmentIds[cleanupIdx]})
    /\ cleanupPc' = "assignment_questions"
    /\ UNCHANGED <<call, seedRun, pacing, inputs, groupFunction, cleanupLoops>>

\* DELETE FROM assignment_questions WHERE assignment_id = ...; then the next id
DeleteAssignmentQuestions ==
    /\ cleanupPc = "assignment_questions"
    /\ Delete("assignment_questions",
              {x \in tables.assignment_questions : x[1] = assignmentIds[cleanupIdx]})
    /\ LoopOver(assignmentIds, "assigned_assignments", "assignments")
    /\ UNCHANGED <<call, seedRun, pacing, inputs, groupFunction, cleanupGroup, seedEnrollments,
                   allEnrollments, assignmentIds, seedKCs, questions, assessmentIds>>

\* third loop: DELETE FROM assignments WHERE id = ...
DeleteAssignment ==
    /\ cleanupPc = "assignments"
    /\ Delete("assignments", {assignmentIds[cleanupIdx]})
    /\ LoopOver(assignmentIds, "assignments", "seedKCs")
    /\ UNCHANGED <<call, seedRun, pacing, inputs, groupFunction, cleanupGroup, seedEnrollments,
                   allEnrollments, assignmentIds, seedKCs, questions, assessmentIds>>

\* cleanupOrphanedKCs: the SELECT of the KCs with the seed's names; returns
\* if there is none
SelectSeedKCs ==
    /\ cleanupPc = "seedKCs"
    /\ LET found == {kc.id : kc \in tables.knowledge_components}
       IN /\ seedKCs' \in Orders(found)
          /\ cleanupPc' = IF found = {} THEN "oldAssessments" ELSE "questions"
    /\ cleanupIdx' = 1
    /\ UNCHANGED <<call, seedRun, pacing, inputs, groupFunction, tables, deleteLog,
                   cleanupGroup, seedEnrollments, allEnrollments, assignmentIds, questions,
                   assessmentIds>>

\* the SELECT of the questions that reference the KC at hand
SelectQuestions ==
    /\ cleanupPc = "questions"
    /\ LET found == {q.id : q \in {x \in tables.questions :
                                      x.knowledge_component_id = seedKCs[cleanupIdx]}}
       IN /\ questions' \in Orders(found)
          /\ cleanupPc' = IF found = {} THEN "questionsOfKc" ELSE "questionResponses"
    /\ UNCHANGED <<call, seedRun, pacing, inputs, groupFunction, tables, deleteLog,
                   cleanupGroup, seedEnrollments, allEnrollments, assignmentIds, seedKCs,
                   assessmentIds, cleanupIdx>>

\* DELETE FROM responses WHERE question_id = ...
DeleteResponsesOfQuestion ==
    /\ cleanupPc = "questionResponses"
    /\ Delete("responses", {r \in tables.responses : r.question_id = Head(questions)})
    /\ cleanupPc' = "questionAssignments"
    /\ UNCHANGED <<call, seedRun, pacing, inputs, groupFunction, cleanupLoops>>

\* DELETE FROM assignment_questions WHERE question_id = ...; then the next question
DeleteAssignmentQuestionsOfQuestion ==
    /\ cleanupPc = "questionAssignments"
    /\ Delete("assignment_questions",
              {x \in tables.assignment_questions : x[2] = Head(questions)})
    /\ questions' = Tail(questions)
    /\ cleanupPc' = IF Tail(questions) = <<>> THEN "questionsOfKc" ELSE "questionResponses"
    /\ UNCHANGED <<call, seedRun, pacing, inputs, groupFunction, cleanupGroup, seedEnrollments,
                   allEnrollments, assignmentIds, seedKCs, assessmentIds, cleanupIdx>>

\* DELETE FROM questions WHERE knowledge_component_id = ...; then the next KC
DeleteQuestionsOfKc ==
    /\ cleanupPc = "questionsOfKc"
    /\ Delete("questions",
              {q \in tables.questions : q.knowledge_component_id = seedKCs[cleanupIdx]})
    /\ LoopOver(seedKCs, "questions", "knowledge_components")
    /\ UNCHANGED <<call, seedRun, pacing, inputs, groupFunction, cleanupGroup, seedEnrollments,
                   allEnrollments, assignmentIds, seedKCs, questions, assessmentIds>>

\* DELETE FROM knowledge_components WHERE name LIKE ...
DeleteKnowledgeComponents ==
    /\ cleanupPc = "knowledge_components"
    /\ Delete("knowledge_components", tables.knowledge_components)
    /\ cleanupPc' = "oldAssessments"
    /\ UNCHANGED <<call, seedRun, pacing, inputs, groupFunction, cleanupLoops>>

\* cleanupAssessments: the SELECT of the assignments titled 'Unit % Assessment';
\* returns if there is none
SelectOldAssessments ==
    /\ cleanupPc = "oldAssessments"
    /\ LET found == {a \in tables.assignments : a[1] = Assessment[1]}
       IN /\ assessmentIds' \in Orders(found)
          /\ cleanupPc' = IF found = {} THEN "done" ELSE "assessmentAqr"
    /\ cleanupIdx' = 1
    /\ UNCHANGED <<call, seedRun, pacing, inputs, groupFunction, tables, deleteLog,
                   cleanupGroup, seedEnrollments, allEnrollments, assignmentIds, seedKCs,
                   questions>>

\* the statements of its loop body, in order
DeleteAqrOfAssessment ==
    /\ cleanupPc = "assessmentAqr"
    /\ Delete("assignment_question_responses", AqrOfAssignment(assessmentIds[cleanupIdx]))
    /\ cleanupPc' = "assessmentAssigned"
    /\ UNCHANGED <<call, seedRun, pacing, inputs, groupFunction, cleanupLoops>>

DeleteAssignedAssessments ==
    /\ cleanupPc = "assessmentAssigned"
    /\ Delete("assigned_assignments",
              {x \in tables.assigned_assignments : x[1] = assessmentIds[cleanupIdx]})
    /\ cleanupPc' = "assessmentModules"
    /\ UNCHANGED <<call, seedRun, pacing, inputs, groupFunction, cleanupLoops>>

DeleteAssessmentModules ==
    /\ cleanupPc = "assessmentModules"
    /\ Delete("assignment_modules",
              {x \in tables.assignment_modules : x[1] = assessmentIds[cleanupIdx]})
    /\ cleanupPc' = "assessmentQuestions"
    /\ UNCHANGED <<call, seedRun, pacing, inputs, groupFunction, cleanupLoops>>

DeleteAssessmentQuestions ==
    /\ cleanupPc = "assessmentQuestions"
    /\ Delete("assignment_questions",
              {x \in tables.assignment_questions : x[1] = assessmentIds[cleanupIdx]})
    /\ cleanupPc' = "assessments"
    /\ UNCHANGED <<call, seedRun, pacing, inputs, groupFunction, cleanupLoops>>

DeleteAssessment ==
    /\ cleanupPc = "assessments"
    /\ Delete("assignments", {assessmentIds[cleanupIdx]})
    /\ LoopOver(assessmentIds, "assessmentAqr", "done")
    /\ UNCHANGED <<call, seedRun, pacing, inputs, groupFunction, cleanupGroup, seedEnrollments,
                   allEnrollments, assignmentIds, seedKCs, questions, assessmentIds>>

\* the database when cleanupSeedStudents is called: empty of seed rows on a
\* first run, or as an earlier seed run left it
InitCleanup ==
    /\ \E seeded \in BOOLEAN :
       \E inBoth \in SUBSET SeedStudents :
       \E others \in SUBSET OtherStudents :
       \E responders \in SUBSET (SeedStudents \cup OtherStudents) :
          tables = SeededTables(
                      {<<s, GROUP_IDS[1]>> : s \in (IF seeded THEN SeedStudents ELSE {}) \cup others}
                          \cup {<<s, GROUP_IDS[2]>> : s \in IF seeded THEN inBoth ELSE {}},
                      responders, seeded)
    /\ cleanupPc = "seedEnrollments"
    /\ cleanupGroup = 0
    /\ seedEnrollments = <<>> /\ allEnrollments = <<>>
    /\ assignmentIds = <<>> /\ seedKCs = <<>> /\ questions = <<>> /\ assessmentIds = <<>>
    /\ cleanupIdx = 0
    /\ deleteLog = <<>>
    /\ OutsidePacing
    /\ utcOffset = 0
    /\ daysToSeed = 0
    /\ standaloneCount = 0
    /\ enrollments = 0
    /\ lessonsByModule = <<>>
    /\ totalQuestions = 0
    /\ kcMissing = FALSE
    /\ workingDays = <<>>
    /\ pc = "alloc"
    /\ error = "none"
    /\ moduleWorkingDays = <<>>
    /\ i = 0 /\ moduleIndex = 0 /\ lessonIdx = 0 /\ dayIdxOffset = 0
    /\ partialLessonProgress = <<>>
    /\ pendingMasteryChecks = <<>>
    /\ partialIdx = 0 /\ pendingIdx = 0
    /\ dailyStats = <<>>
    /\ events = <<>>
    /\ responses = <<>>
    /\ standaloneModule = 0 /\ standaloneLesson = 0
    /\ standaloneRows = <<>>
    /\ detailI = 0
    /\ detailRows = <<>>
    /\ postgresUrlLocal = TRUE
    /\ teacherExists = TRUE
    /\ namesStale = FALSE
    /\ runPc = "cleanup"
    /\ run = 1
    /\ groupIndex = 0
    /\ eventsTable = {}
    /\ dbWrites = 0
    /\ callArgs = <<>>
    /\ callResult = 0

NextCleanup ==
    \/ SelectSeedEnrollments
    \/ SelectAllEnrollments
    \/ DeleteAqrOfResponses
    \/ DeleteResponses
    \/ DeleteEnrollments
    \/ DeleteStudentProfile
    \/ DeleteAuthUser
    \/ SelectOldAssignments
    \/ DeleteAqrOfAssignment
    \/ DeleteAssignedAssignments
    \/ DeleteAssignmentPrerequisites
    \/ DeleteAssignmentModules
    \/ DeleteAssignmentQuestions
    \/ DeleteAssignment
    \/ SelectSeedKCs
    \/ SelectQuestions
    \/ DeleteResponsesOfQuestion
    \/ DeleteAssignmentQuestionsOfQuestion
    \/ DeleteQuestionsOfKc
    \/ DeleteKnowledgeComponents
    \/ SelectOldAssessments
    \/ DeleteAqrOfAssessment
    \/ DeleteAssignedAssessments
    \/ DeleteAssessmentModules
    \/ DeleteAssessmentQuestions
    \/ DeleteAssessment

SpecCleanup == InitCleanup /\ [][NextCleanup]_vars

UtcOffsets == {0 - 10, 0, 11}

InitZones ==
    /\ OutsidePacing
    /\ OutsideCleanup
    /\ utcOffset \in UtcOffsets
    /\ daysToSeed = 0
    /\ standaloneCount = 0
    /\ standaloneModule = 0 /\ standaloneLesson = 0
    /\ standaloneRows = <<>>
    /\ detailI = 0
    /\ detailRows = <<>>
    /\ enrollments \in 1..MaxStudents
    /\ lessonsByModule \in LessonCountLists
    /\ totalQuestions \in 0..MaxQuestions
    /\ kcMissing \in BOOLEAN
    /\ workingDays \in WorkingDayLists
    /\ pc = "alloc"
    /\ error = "none"
    /\ moduleWorkingDays = <<>>
    /\ i = 0 /\ moduleIndex = 0 /\ lessonIdx = 0 /\ dayIdxOffset = 0
    /\ partialLessonProgress = <<>>
    /\ pendingMasteryChecks = <<>>
    /\ partialIdx = 0 /\ pendingIdx = 0
    /\ dailyStats = <<>>
    /\ events = <<>>
    /\ responses = <<>>
    /\ postgresUrlLocal = TRUE
    /\ teacherExists = TRUE
    /\ namesStale = FALSE
    /\ runPc = "seeding"
    /\ run = 1
    /\ groupIndex = 0
    /\ eventsTable = {}
    /\ dbWrites = 0
    /\ callArgs = <<>>
    /\ callResult = 0

\* runs over short lessons on a machine in any of the zones
SpecZones == InitZones /\ [][Next]_vars

(***************************************************************************)
(* C22                                                                     *)
(***************************************************************************)
\* the calendar date of an event's stamp, as dailyStats keys name dates
EventDate(e) == DateStr(e.daysAgo, e.hoursOffset)

\* the number of events of a type dated on a date
DatedCount(type, date) ==
    Cardinality({k \in DOMAIN events : events[k].type = type /\ EventDate(events[k]) = date})

\* C22: after every step, for each day, dailyStats.questions is the number of
\* QUESTION_ANSWERED events dated that day, dailyStats.completions the number
\* of LESSON_COMPLETED events dated that day and dailyStats.masteryChecks the
\* number of mastery-check completions dated that day; a day without an
\* entry has no such event.
StatsMatchEvents ==
    \A date \in (DOMAIN dailyStats) \cup {EventDate(events[k]) : k \in DOMAIN events} :
        IF date \in DOMAIN dailyStats
        THEN /\ dailyStats[date].questions = DatedCount("QUESTION_ANSWERED", date)
             /\ dailyStats[date].completions = DatedCount("LESSON_COMPLETED", date)
             /\ dailyStats[date].masteryChecks = DatedCount("ASSIGNMENT_COMPLETED", date)
        ELSE /\ DatedCount("QUESTION_ANSWERED", date) = 0
             /\ DatedCount("LESSON_COMPLETED", date) = 0
             /\ DatedCount("ASSIGNMENT_COMPLETED", date) = 0
(***************************************************************************)
(* C23                                                                     *)
(***************************************************************************)
\* C23: every index the scheduler uses is in range.  For every student and
\* module, lessonsToCompleteInModule is at most the module's lesson count and
\* the start index floor(i/total * windowSize * 0.3) is below windowSize, so
\* that availableDays is not empty when the window is not; the lesson at the
\* cursor is a lesson of the module and its day index is an index of
\* availableDays; every question written, and every question a continuation
\* is still to write, is a question of the lesson.
IndicesInRange ==
    /\ pc \notin {"alloc", "aborted"} =>
          \A stu \in Students : \A mod \in Modules :
              LET window == moduleWorkingDays[mod + 1]
              IN /\ LessonsToCompleteInModule(lessonsByModule[mod + 1], stu)
                        <= lessonsByModule[mod + 1]
                 /\ Len(window) > 0 =>
                        /\ StartDayIndex(stu, enrollments, Len(window)) >= 0
                        /\ StartDayIndex(stu, enrollments, Len(window)) < Len(window)
                        /\ Len(AvailableDays(window, stu, enrollments)) > 0
    /\ (pc = "main" /\ i < enrollments) =>
          /\ moduleIndex < Len(lessonsByModule)
          /\ lessonIdx < moduleLessons
          /\ day1Idx >= 0
          /\ day1Idx < Len(availableDays)
          /\ questionsDay1 <= totalQuestions
    /\ \A k \in DOMAIN events :
          /\ events[k].moduleIndex < Len(lessonsByModule)
          /\ events[k].lessonIndex < lessonsByModule[events[k].moduleIndex + 1]
          /\ events[k].question \in {NoQuestion} \cup (0..(totalQuestions - 1))
          /\ events[k].daysAgo \in 1..DAYS_TO_SEED
    /\ \A j \in DOMAIN partialLessonProgress :
          /\ partialLessonProgress[j].questionsCompleted >= 0
          /\ partialLessonProgress[j].questionsCompleted < totalQuestions
          /\ partialLessonProgress[j].lessonIndex
                < lessonsByModule[partialLessonProgress[j].moduleIndex + 1]

\* a lesson after the first of its module whose day cursor has run past the
\* last available day, so that Math.min holds the day index in range
CursorPastLastDay ==
    /\ pc = "main"
    /\ i < enrollments
    /\ lessonIdx >= 1
    /\ dayIdxOffset >= Len(availableDays)
    /\ Len(events) > 0
====
